---- MODULE Spec2Model ----
(***************************************************************************)
(* Model of the GitHub Action indexer (augment_indexer): IndexManager,     *)
(* GitHubClient and file_filter.  A Python str is a sequence of code       *)
(* points, a Python bytes a sequence of 0..255; None is the record None.   *)
(***************************************************************************)
EXTENDS Integers, Sequences, FiniteSets, TLC

None == [some |-> FALSE]

Some(v) == [some |-> TRUE, v |-> v]

(***************************************************************************)
(* Text helpers                                                            *)
(***************************************************************************)
CH_LF == 10

CH_CR == 13

CH_DOT == 46

CH_SLASH == 47

Front(s) == SubSeq(s, 1, Len(s) - 1)

EndsWith(s, suf) ==
    /\ Len(suf) <= Len(s)
    /\ SubSeq(s, Len(s) - Len(suf) + 1, Len(s)) = suf

\* Python `sub in s`
Contains(s, sub) ==
    \E i \in 1..(Len(s) - Len(sub) + 1) : SubSeq(s, i, i + Len(sub) - 1) = sub

\* Python s.split(sep) for a one-character separator
RECURSIVE SplitOn(_, _)
SplitOn(s, sep) ==
    IF \A i \in 1..Len(s) : s[i] # sep
    THEN <<s>>
    ELSE LET i == CHOOSE k \in 1..Len(s) :
                      s[k] = sep /\ \A j \in 1..(k - 1) : s[j] # sep
         IN <<SubSeq(s, 1, i - 1)>> \o SplitOn(SubSeq(s, i + 1, Len(s)), sep)

\* Python "/".join(parts)
RECURSIVE JoinSlash(_)
JoinSlash(parts) ==
    IF Len(parts) = 0 THEN <<>>
    ELSE IF Len(parts) = 1 THEN parts[1]
    ELSE parts[1] \o <<CH_SLASH>> \o JoinSlash(Tail(parts))

\* Python str.splitlines(), for the line ends LF, CR and CRLF
RECURSIVE SplitLines(_)
SplitLines(s) ==
    IF Len(s) = 0 THEN <<>>
    ELSE IF \A i \in 1..Len(s) : s[i] \notin {CH_LF, CH_CR}
    THEN <<s>>
    ELSE LET i == CHOOSE k \in 1..Len(s) :
                      s[k] \in {CH_LF, CH_CR} /\ \A j \in 1..(k - 1) : s[j] \notin {CH_LF, CH_CR}
             skip == IF s[i] = CH_CR /\ i < Len(s) /\ s[i + 1] = CH_LF THEN 2 ELSE 1
         IN <<SubSeq(s, 1, i - 1)>> \o SplitLines(SubSeq(s, i + skip, Len(s)))

(***************************************************************************)
(* bytes and str values.  A bytes value is [bytes, pad]: the bytes         *)
(* followed by pad ASCII spaces, so that sizes around the 1 MB limit can   *)
(* be represented; a str value is [chars, pad] in the same way.            *)
(***************************************************************************)
Bytes(b, p) == [bytes |-> b, pad |-> p]

Str(c, p) == [chars |-> c, pad |-> p]

\* len(content)
ByteLen(content) == Len(content.bytes) + content.pad

\* bool(s): the empty str is falsy
Truthy(s) == Len(s.chars) + s.pad > 0

IsCont(b) == b >= 128 /\ b <= 191

\* Length of the well-formed UTF-8 sequence at the head of b, or 0 when the
\* head is malformed (strict: no overlong forms, no surrogates, <= U+10FFFF).
Utf8SeqLen(b) ==
    LET n == Len(b)
        b1 == b[1]
    IN  IF b1 <= 127 THEN 1
        ELSE IF b1 >= 194 /\ b1 <= 223
        THEN IF n >= 2 /\ IsCont(b[2]) THEN 2 ELSE 0
        ELSE IF b1 >= 224 /\ b1 <= 239
        THEN IF /\ n >= 3
                /\ IsCont(b[2])
                /\ IsCont(b[3])
                /\ (b1 = 224 => b[2] >= 160)
                /\ (b1 = 237 => b[2] <= 159)
             THEN 3 ELSE 0
        ELSE IF b1 >= 240 /\ b1 <= 244
        THEN IF /\ n >= 4
                /\ IsCont(b[2])
                /\ IsCont(b[3])
                /\ IsCont(b[4])
                /\ (b1 = 240 => b[2] >= 144)
                /\ (b1 = 244 => b[2] <= 143)
             THEN 4 ELSE 0
        ELSE 0

Utf8CodePoint(b, k) ==
    IF k = 1 THEN b[1]
    ELSE IF k = 2 THEN (b[1] - 192) * 64 + (b[2] - 128)
    ELSE IF k = 3 THEN (b[1] - 224) * 4096 + (b[2] - 128) * 64 + (b[3] - 128)
    ELSE (b[1] - 240) * 262144 + (b[2] - 128) * 4096 + (b[3] - 128) * 64 + (b[4] - 128)

\* bytes.decode("utf-8") on a byte sequence: Some(code points), or None for
\* UnicodeDecodeError
RECURSIVE Utf8Decode(_)
Utf8Decode(b) ==
    IF Len(b) = 0 THEN Some(<<>>)
    ELSE LET k == Utf8SeqLen(b)
         IN IF k = 0 THEN None
            ELSE LET rest == Utf8Decode(SubSeq(b, k + 1, Len(b)))
                 IN IF rest.some THEN Some(<<Utf8CodePoint(b, k)>> \o rest.v)
                    ELSE None

\* content.decode("utf-8") on a bytes value
Decode(content) ==
    LET d == Utf8Decode(content.bytes)
    IN IF d.some THEN Some(Str(d.v, content.pad)) ELSE None

(***************************************************************************)
(* file_filter.py                                                          *)
(***************************************************************************)
DEFAULT_MAX_FILE_SIZE == 1048576

KEYISH_EXTENSIONS ==
    { <<46, 112, 101, 109>>,                          \* .pem
      <<46, 107, 101, 121>>,                          \* .key
      <<46, 112, 102, 120>>,                          \* .pfx
      <<46, 112, 49, 50>>,                            \* .p12
      <<46, 106, 107, 115>>,                          \* .jks
      <<46, 107, 101, 121, 115, 116, 111, 114, 101>>, \* .keystore
      <<46, 112, 107, 99, 115, 49, 50>>,              \* .pkcs12
      <<46, 99, 114, 116>>,                           \* .crt
      <<46, 99, 101, 114>> }                          \* .cer

KEYISH_NAMES ==
    { <<46, 103, 105, 116>>,                            \* .git
      <<105, 100, 95, 114, 115, 97>>,                   \* id_rsa
      <<105, 100, 95, 101, 100, 50, 53, 53, 49, 57>>,   \* id_ed25519
      <<105, 100, 95, 101, 99, 100, 115, 97>>,          \* id_ecdsa
      <<105, 100, 95, 100, 115, 97>> }                  \* id_dsa

\* The alternatives of KEYISH_PATTERN between ^ and the end of s; `.` does
\* not match a line feed.
KeyishAlternatives(s) ==
    \/ s \in KEYISH_NAMES
    \/ \E ext \in KEYISH_EXTENSIONS :
          /\ EndsWith(s, ext)
          /\ \A i \in 1..(Len(s) - Len(ext)) : s[i] # CH_LF

\* KEYISH_PATTERN.match(s): `$` matches at the end and before a final LF
KEYISH_PATTERN(s) ==
    \/ KeyishAlternatives(s)
    \/ Len(s) > 0 /\ s[Len(s)] = CH_LF /\ KeyishAlternatives(Front(s))

\* pathlib: Path(path).name, the last component that is neither empty nor "."
PathName(path) ==
    LET parts == SelectSeq(SplitOn(path, CH_SLASH),
                           LAMBDA seg : seg # <<>> /\ seg # <<CH_DOT>>)
    IN IF Len(parts) = 0 THEN <<>> ELSE parts[Len(parts)]

\* Mutant: only a path segment that is ".." counts
always_ignore_path_segment(path) ==
    \E i \in 1..Len(SplitOn(path, CH_SLASH)) : SplitOn(path, CH_SLASH)[i] = <<CH_DOT, CH_DOT>>

always_ignore_path(path) == Contains(path, <<CH_DOT, CH_DOT>>)

is_keyish_path(path) == KEYISH_PATTERN(PathName(path))

\* Mutant: a file of exactly the limit is too large
is_valid_file_size_strict(size_bytes, max_file_size) == size_bytes < max_file_size

is_valid_file_size(size_bytes, max_file_size) == size_bytes <= max_file_size

\* Mutant: only ASCII content is text
is_valid_utf8_ascii(content) == \A i \in 1..Len(content.bytes) : content.bytes[i] <= 127

is_valid_utf8(content) == Utf8Decode(content.bytes).some

\* should_filter_file: [filtered, reason]; max_file_size is None or Some(n)
should_filter_file(path, content, max_file_size) ==
    LET effective_max_size ==
            IF max_file_size.some THEN max_file_size.v ELSE DEFAULT_MAX_FILE_SIZE
    IN  IF always_ignore_path(path)
        THEN [filtered |-> TRUE, reason |-> "path_contains_dotdot"]
        ELSE IF ~is_valid_file_size(ByteLen(content), effective_max_size)
        THEN [filtered |-> TRUE, reason |-> "file_too_large"]
        ELSE IF is_keyish_path(path)
        THEN [filtered |-> TRUE, reason |-> "keyish_pattern"]
        ELSE IF ~is_valid_utf8(content)
        THEN [filtered |-> TRUE, reason |-> "binary_file"]
        ELSE [filtered |-> FALSE, reason |-> "none"]

(***************************************************************************)
(* The hosting platform: a linear history of pushes.  The commit pushed    *)
(* i-th has SHA Sha(i); a force push makes all earlier commits unreachable *)
(* (floor).  Refs are [sym, sha]: a symbolic name or a resolved SHA.       *)
(***************************************************************************)
Sha(i) == [sym |-> "", sha |-> i]

Sym(name) == [sym |-> name, sha |-> 0]

IsSha(ref) == ref.sym = "" /\ ref.sha >= 1

P_GITIGNORE == <<46, 103, 105, 116, 105, 103, 110, 111, 114, 101>>

P_AUGMENTIGNORE == <<46, 97, 117, 103, 109, 101, 110, 116, 105, 103, 110, 111, 114, 101>>

P_DotDot == <<97, 46, 46, 98>>            \* a..b

P_Bin == <<98, 46, 98, 105, 110>>         \* b.bin

P_Empty == <<101, 46, 116, 120, 116>>     \* e.txt

P_Pem == <<107, 47, 115, 46, 112, 101, 109>> \* k/s.pem

P_Main == <<109, 46, 112, 121>>           \* m.py

P_New == <<110, 46, 112, 121>>            \* n.py

P_Old == <<111, 46, 112, 121>>            \* o.py

P_Log == <<116, 46, 108, 111, 103>>       \* t.log

\* Every path of the modelled repository, in the order of the comparison API
AllPaths ==
    <<P_AUGMENTIGNORE, P_GITIGNORE, P_DotDot, P_Bin, P_Empty, P_Pem, P_Main, P_New, P_Old, P_Log>>

B_Hi == Bytes(<<104, 105>>, 0)

B_Ho == Bytes(<<104, 111>>, 0)

B_NewText == Bytes(<<110, 101, 119>>, 0)

B_Binary == Bytes(<<255, 254>>, 0)

B_EmptyFile == Bytes(<<>>, 0)

B_IgnoreLog == Bytes(<<116, 46, 108, 111, 103, 10>>, 0)   \* "t.log\n"

\* The trees a push can install
Tree0 == (P_Main :> B_Hi) @@ (P_Old :> B_Ho)

Tree1 == (P_Main :> B_Ho) @@ (P_New :> B_NewText)

Tree2 == (P_Main :> B_Hi) @@ (P_New :> B_Ho)

Tree3 == Tree0 @@ (P_Pem :> B_Hi) @@ (P_DotDot :> B_Hi)

Tree4 == Tree0 @@ (P_GITIGNORE :> B_IgnoreLog) @@ (P_Log :> B_Hi)

Tree5 == Tree0 @@ (P_Bin :> B_Binary) @@ (P_Empty :> B_EmptyFile)

Trees == <<Tree0, Tree1, Tree2, Tree3, Tree4, Tree5>>

\* A push: the tree of its last commit and the number of commits it adds
PushOptions ==
    { [tree |-> 2, n |-> 1], [tree |-> 3, n |-> 1], [tree |-> 4, n |-> 1],
      [tree |-> 5, n |-> 1], [tree |-> 6, n |-> 1], [tree |-> 3, n |-> 101] }

TreeAt(commits, sha) == Trees[commits[sha.sha].tree]

\* base is reachable from head
Ancestor(floor, base, head) == floor <= base.sha /\ base.sha <= head.sha

RECURSIVE CommitsBetween(_, _, _)
CommitsBetween(commits, b, h) ==
    IF h <= b THEN 0 ELSE commits[h].n + CommitsBetween(commits, b, h - 1)

\* The source of the rename that the platform reports for an added path p:
\* a removed path with the same content, p being the first such added path
RenameSource(tb, th, p) ==
    LET removed == SelectSeq(AllPaths,
                       LAMBDA q : q \in DOMAIN tb /\ q \notin DOMAIN th /\ tb[q] = th[p])
        added == SelectSeq(AllPaths,
                       LAMBDA q : q \in DOMAIN th /\ q \notin DOMAIN tb /\ th[q] = th[p])
    IN IF Len(removed) > 0 /\ added[1] = p THEN Some(removed[1]) ELSE None

\* comparison.files of repository.compare(base, head): filename, status and
\* previous_filename of every changed file
CompareFiles(tb, th) ==
    LET IsRenameSource(q) ==
            \E p \in DOMAIN th : p \notin DOMAIN tb /\ RenameSource(tb, th, p) = Some(q)
        changed == SelectSeq(AllPaths, LAMBDA p :
                     \/ p \in DOMAIN th /\ p \notin DOMAIN tb
                     \/ p \in DOMAIN tb /\ p \notin DOMAIN th /\ ~IsRenameSource(p)
                     \/ p \in DOMAIN tb /\ p \in DOMAIN th /\ tb[p] # th[p])
        Entry(p) ==
            IF p \notin DOMAIN tb
            THEN IF RenameSource(tb, th, p).some
                 THEN [filename |-> p, status |-> "renamed",
                       previous_filename |-> RenameSource(tb, th, p)]
                 ELSE [filename |-> p, status |-> "added", previous_filename |-> None]
            ELSE IF p \notin DOMAIN th
            THEN [filename |-> p, status |-> "removed", previous_filename |-> None]
            ELSE [filename |-> p, status |-> "modified", previous_filename |-> None]
    IN [i \in 1..Len(changed) |-> Entry(changed[i])]

\* repository.compare(base, head) when the platform accepts the range
CompareApi(commits, base, head) ==
    [files |-> CompareFiles(TreeAt(commits, base), TreeAt(commits, head)),
     total_commits |-> CommitsBetween(commits, base.sha, head.sha)]

(***************************************************************************)
(* github_client.py                                                        *)
(***************************************************************************)
\* Mutant: the ref is handed back as it was given
resolve_ref_unresolved(head, ref) == ref

\* GitHubClient.resolve_ref when the ref exists: the SHA of the commit that
\* the ref names (symbolic refs name the head of the branch)
resolve_ref(head, ref) == IF IsSha(ref) THEN ref ELSE Sha(head)

\* Mutant: a removed file is taken for a modified one
map_github_status_removed_as_modified(status) ==
    IF status \in {"added", "modified", "renamed"} THEN status ELSE "modified"

\* GitHubClient._map_github_status
map_github_status(status) ==
    IF status \in {"added", "modified", "removed", "renamed"} THEN status ELSE "modified"

\* GitHubClient.get_file_contents as its callers see it: Some(str), or None
\* when it raises (path absent at the ref, content not UTF-8, request failed)
get_file_contents(tree, path, requestFails) ==
    IF requestFails \/ path \notin DOMAIN tree THEN None ELSE Decode(tree[path])

\* Mutant: a file whose contents cannot be fetched is left out of the list
compare_commits_drop_failed(api, headTree, failing) ==
    LET Change(file) ==
            LET status == map_github_status(file.status)
            IN [path |-> file.filename,
                status |-> status,
                previousFilename |-> file.previous_filename,
                contents |-> IF status \in {"added", "modified"}
                             THEN get_file_contents(headTree, file.filename,
                                                    file.filename \in failing)
                             ELSE None]
        all == [i \in 1..Len(api.files) |-> Change(api.files[i])]
    IN [files |-> SelectSeq(all, LAMBDA c :
                     c.status \in {"added", "modified"} => c.contents.some),
        commits |-> api.total_commits,
        totalChanges |-> Len(api.files)]

\* GitHubClient.compare_commits on a successful comparison; failing is the
\* set of paths whose content request fails
compare_commits(api, headTree, failing) ==
    LET Change(file) ==
            LET status == map_github_status(file.status)
            IN [path |-> file.filename,
                status |-> status,
                previousFilename |-> file.previous_filename,
                contents |-> IF status \in {"added", "modified"}
                             THEN get_file_contents(headTree, file.filename,
                                                    file.filename \in failing)
                             ELSE None]
    IN [files |-> [i \in 1..Len(api.files) |-> Change(api.files[i])],
        commits |-> api.total_commits,
        totalChanges |-> Len(api.files)]

\* Mutant: a change of the ignore files goes unnoticed
ignore_files_changed_never(api) == FALSE

\* GitHubClient.ignore_files_changed on a successful comparison
ignore_files_changed(api) ==
    \E i \in 1..Len(api.files) : api.files[i].filename \in {P_GITIGNORE, P_AUGMENTIGNORE}

\* pathspec match_file for the patterns used here: a line that is a plain
\* name matches every path that has the name as one of its segments
MatchFile(spec, path) ==
    \E i \in 1..Len(spec) :
        /\ spec[i] # <<>>
        /\ \E j \in 1..Len(SplitOn(path, CH_SLASH)) : SplitOn(path, CH_SLASH)[j] = spec[i]

\* One half of GitHubClient._load_ignore_patterns: Some(lines) or None
LoadIgnoreFile(tree, name, requestFails) ==
    LET text == get_file_contents(tree, name, requestFails)
    IN IF text.some THEN Some(SplitLines(text.v.chars)) ELSE None

\* GitHubClient._load_ignore_patterns: <<augmentignore, gitignore>>
load_ignore_patterns(tree, augFails, gitFails) ==
    <<LoadIgnoreFile(tree, P_AUGMENTIGNORE, augFails),
      LoadIgnoreFile(tree, P_GITIGNORE, gitFails)>>

\* The members of the archive of a tree: the root directory, then one
\* regular file per path, each under the root directory "r"
TarMembers(tree) ==
    LET present == SelectSeq(AllPaths, LAMBDA p : p \in DOMAIN tree)
    IN <<[name |-> <<114>>, isfile |-> FALSE, content |-> B_EmptyFile]>> \o
       [i \in 1..Len(present) |->
           [name |-> <<114, CH_SLASH>> \o present[i], isfile |-> TRUE,
            content |-> tree[present[i]]]]

BumpReason(reasons, r) ==
    IF r \in DOMAIN reasons THEN [reasons EXCEPT ![r] = @ + 1] ELSE reasons @@ (r :> 1)

\* One iteration of the extraction loop of GitHubClient.download_tarball
ExtractMember(acc, member, augmentignore, gitignore) ==
    IF ~member.isfile THEN acc
    ELSE LET counted == [acc EXCEPT !.total_files = @ + 1]
             parts == SplitOn(member.name, CH_SLASH)
             file_path == JoinSlash(Tail(parts))
             Filtered(r) == [counted EXCEPT !.filtered_files = @ + 1,
                                            !.filter_reasons = BumpReason(@, r)]
             filter_result == should_filter_file(file_path, member.content, None)
         IN IF file_path = <<>> THEN counted
            ELSE IF augmentignore.some /\ MatchFile(augmentignore.v, file_path)
            THEN Filtered("augmentignore")
            ELSE IF filter_result.filtered
            THEN Filtered(filter_result.reason)
            ELSE IF gitignore.some /\ MatchFile(gitignore.v, file_path)
            THEN Filtered("gitignore")
            ELSE IF Decode(member.content).some
            THEN [counted EXCEPT !.files =
                     [p \in (DOMAIN @) \cup {file_path} |->
                         IF p = file_path THEN Decode(member.content).v ELSE @[p]]]
            ELSE Filtered("decode_error")

RECURSIVE ExtractAll(_, _, _, _)
ExtractAll(acc, members, augmentignore, gitignore) ==
    IF Len(members) = 0 THEN acc
    ELSE ExtractAll(ExtractMember(acc, Head(members), augmentignore, gitignore),
                    Tail(members), augmentignore, gitignore)

\* GitHubClient.download_tarball once the archive has been downloaded
download_tarball(members, patterns) ==
    ExtractAll([files |-> <<>>, total_files |-> 0, filtered_files |-> 0,
                filter_reasons |-> <<>>],
               members, patterns[1], patterns[2])

(***************************************************************************)
(* The external index (DirectContext), as far as the indexer uses it: a    *)
(* handle holds a map from path to contents.                               *)
(***************************************************************************)
RECURSIVE add_to_index(_, _)
add_to_index(ctx, files) ==
    IF Len(files) = 0 THEN ctx
    ELSE add_to_index([p \in (DOMAIN ctx) \cup {files[1].path} |->
                          IF p = files[1].path THEN files[1].contents ELSE ctx[p]],
                      Tail(files))

remove_from_index(ctx, paths) ==
    [p \in (DOMAIN ctx) \ {paths[i] : i \in 1..Len(paths)} |-> ctx[p]]

\* DirectContext.export: the opaque state and its checkpoint
export(ctx) == [blobs |-> ctx, checkpoint_id |-> "cp"]

\* DirectContext.import_from_file
import_from_file(contextState) == contextState.blobs

(***************************************************************************)
(* index_manager.py and main.py                                            *)
(***************************************************************************)
DEFAULT_MAX_COMMITS == 100

DEFAULT_MAX_FILES == 500

MaxRuns == 2

MaxPushes == 2

MaxFetchFailures == 1

\* The state file of the branch: absent, a JSON document, or a file that a
\* failed write left truncated
Absent == [file |-> "absent"]

Corrupt == [file |-> "corrupt"]

Doc(state) == [file |-> "json", doc |-> state]

\* The members of the JSON object that _save_state writes
StateFields == {"contextState", "lastCommitSha", "repository"}

\* A JSON object that lacks one member, and the JSON object without members
DropField(doc, field) == [f \in (DOMAIN doc) \ {field} |-> doc[f]]

EmptyDocument == [f \in {} |-> 0]

\* `not previous_state` on what json.load returned: None or an empty dict
NoState(previous) == ~previous.some \/ DOMAIN previous.v = {}

\* previous_state[field] on a dict without the member
KeyError(field) == [class |-> "KeyError", message |-> field]

Reason(name) == [name |-> name, n |-> 0, m |-> 0]

ReasonNM(name, n, m) == [name |-> name, n |-> n, m |-> m]

\* How a remote request can fail, and the exception class each cause raises:
\* the platform's error responses are GithubException, a transport failure is
\* not
FailureCauses == {"range_rejected", "base_unreachable", "permission", "network"}

CauseException(cause) ==
    [class |-> IF cause = "network" THEN "ConnectionError" ELSE "GithubException",
     message |-> cause]

ExceptionClasses ==
    {"GithubException", "ConnectionError", "OSError", "JSONDecodeError", "KeyError",
     "Exception"}

\* Outcomes of repository.compare(base, head): the range is accepted only
\* when base is reachable from head
CompareOutcomes(floor, base, head) ==
    IF Ancestor(floor, base, head)
    THEN {"ok", "permission", "network"}
    ELSE {"range_rejected", "base_unreachable", "network"}

\* main.load_config: the repositories, refs and limits a run is configured with
Repositories == {[owner |-> "o", name |-> "r"], [owner |-> "o", name |-> "r2"]}

LimitOptions == {<<None, None>>, <<Some(0), Some(0)>>, <<Some(1), Some(1)>>}

\* The configurations of a run: <<repository, limits, GITHUB_SHA is symbolic>>.
\* Limits are configured for the first repository only, the second one is
\* there to be a different repository; GITHUB_SHA is a symbolic ref, or a
\* commit SHA in a run without limits
RunOptions ==
    {option \in Repositories \X LimitOptions \X BOOLEAN :
        /\ option[1].name = "r" \/ option[2] = <<None, None>>
        /\ option[3] \/ (option[1].name = "r" /\ option[2] = <<None, None>>)}

VARIABLES
    commits,          \* the pushes of the remote history, Sha(i) is commits[i]
    floor,            \* the oldest commit still reachable from the head
    store,            \* the state file of the branch
    pc,               \* position of the process
    runs,             \* number of runs started
    github_sha,       \* the ref the run was configured with (GITHUB_SHA)
    config,           \* IndexConfig
    context,          \* IndexManager._context
    previous_state,   \* local of index()
    decision,         \* (should_reindex, reason) returned by _should_full_reindex
    comparison,       \* commits and totalChanges of the decision's comparison
    changed_files,    \* comparison["files"] of the incremental update
    files_to_add,     \* files_to_index / files_to_add
    files_to_delete,
    context_state,    \* the exported DirectContextState
    result,           \* the IndexResult returned by index()
    error,            \* the exception raised inside index(), if any
    calls,            \* the calls this run made, in order
    store0,           \* the state file when the run started
    fp_attempt,       \* outcome of the comparison attempt of is_force_push
    invocation,       \* a single call of a function of the program: arguments and value
    suspended         \* a second process of main() that is waiting for the processor

locals == <<previous_state, decision, comparison, changed_files, files_to_add, files_to_delete,
            context_state, fp_attempt>>

\* what a run of the indexer leaves alone
aside == <<invocation, suspended>>

vars == <<commits, floor, store, pc, runs, github_sha, config, context, previous_state, decision,
          comparison, changed_files, files_to_add, files_to_delete, context_state, result, error,
          calls, store0, fp_attempt, invocation, suspended>>

HeadSha == Sha(Len(commits))

Call(op, arg) == [op |-> op, arg |-> arg]

\* IndexResult
IndexResult(success, type, filesIndexed, filesDeleted, checkpointId, commitSha, err, reason) ==
    [success |-> success, type |-> type, filesIndexed |-> filesIndexed,
     filesDeleted |-> filesDeleted, checkpointId |-> checkpointId,
     commitSha |-> commitSha, error |-> err, reindexReason |-> reason]

\* Mutant: the except clause names the platform's exception only
IndexCatches_GithubOnly(class) == class = "GithubException"

\* The except clause of IndexManager.index: the classes it catches
IndexCatches(class) == class \in ExceptionClasses

\* The except clause of IndexManager.index: the result it returns
index_except(cfg, exc) ==
    IndexResult(FALSE, "full", 0, 0, "", cfg.currentCommit, Some(exc.message), None)

\* An exception raised inside the try block of index()
\* Mutant: index() without its try/except
Throw_Uncaught(exc) ==
    /\ error' = Some(exc)
    /\ pc' = "uncaught"
    /\ result' = None

Throw(exc) ==
    /\ error' = Some(exc)
    /\ pc' = IF IndexCatches(exc.class) THEN "done" ELSE "uncaught"
    /\ result' = IF IndexCatches(exc.class) THEN Some(index_except(config, exc)) ELSE None

Init ==
    /\ commits = <<[tree |-> 1, n |-> 1]>>
    /\ floor = 1
    /\ store = Absent
    /\ pc = "idle"
    /\ runs = 0
    /\ github_sha = None
    /\ config = None
    /\ context = <<>>
    /\ previous_state = None
    /\ decision = None
    /\ comparison = None
    /\ changed_files = <<>>
    /\ files_to_add = <<>>
    /\ files_to_delete = <<>>
    /\ context_state = None
    /\ result = None
    /\ error = None
    /\ calls = <<>>
    /\ store0 = Absent
    /\ fp_attempt = "none"
    /\ invocation = None
    /\ suspended = None

\* A push to the branch between two runs
Push ==
    /\ pc = "idle"
    /\ Len(commits) <= MaxPushes
    /\ \E option \in PushOptions : commits' = Append(commits, option)
    /\ UNCHANGED <<floor, store, pc, runs, github_sha, config, context, result, error, calls, store0>>
    /\ UNCHANGED locals
    /\ UNCHANGED aside

\* A force push: the history is rewritten, the old commits become unreachable
ForcePush ==
    /\ pc = "idle"
    /\ Len(commits) <= MaxPushes
    /\ commits' = Append(commits, [tree |-> 2, n |-> 1])
    /\ floor' = Len(commits) + 1
    /\ UNCHANGED <<store, pc, runs, github_sha, config, context, result, error, calls, store0>>
    /\ UNCHANGED locals
    /\ UNCHANGED aside

\* Between two runs the state file is replaced by a JSON object that lacks
\* members: _load_state takes whatever JSON the file holds
DamageState ==
    /\ pc = "idle"
    /\ runs < MaxRuns
    /\ store.file = "json"
    /\ DOMAIN store.doc = StateFields
    /\ \E damaged \in {DropField(store.doc, "repository"),
                       DropField(store.doc, "lastCommitSha"), EmptyDocument} :
          store' = Doc(damaged)
    /\ UNCHANGED <<commits, floor, pc, runs, github_sha, config, context, result, error, calls,
                   store0>>
    /\ UNCHANGED locals
    /\ UNCHANGED aside

\* main: load_config, DirectContext.create, IndexManager(...)
StartRun ==
    /\ pc = "idle"
    /\ runs < MaxRuns
    /\ runs' = runs + 1
    /\ \E option \in RunOptions :
          LET ref == IF option[3] THEN Sym("HEAD") ELSE HeadSha
          IN /\ github_sha' = Some(ref)
             /\ config' = [owner |-> option[1].owner, repo |-> option[1].name,
                           currentCommit |-> ref,
                           maxCommits |-> option[2][1], maxFiles |-> option[2][2]]
    /\ context' = <<>>
    /\ previous_state' = None
    /\ decision' = None
    /\ comparison' = None
    /\ changed_files' = <<>>
    /\ files_to_add' = <<>>
    /\ files_to_delete' = <<>>
    /\ context_state' = None
    /\ result' = None
    /\ error' = None
    /\ calls' = <<>>
    /\ store0' = store
    /\ fp_attempt' = "none"
    /\ pc' = "resolve_commit_sha"
    /\ UNCHANGED <<commits, floor, store>>
    /\ UNCHANGED aside

\* IndexManager.resolve_commit_sha, called by main before index(); when the
\* ref cannot be resolved main exits without calling index()
ResolveCommitSha ==
    /\ pc = "resolve_commit_sha"
    /\ \E outcome \in {"ok", "not_found", "network"} :
          IF outcome = "ok"
          THEN /\ config' = [config EXCEPT !.currentCommit =
                                resolve_ref(Len(commits), config.currentCommit)]
               /\ pc' = "load_state"
          ELSE /\ pc' = "fatal"
               /\ UNCHANGED config
    /\ calls' = Append(calls, Call("resolve_ref", <<>>))
    /\ UNCHANGED <<commits, floor, store, runs, github_sha, context, result, error, store0>>
    /\ UNCHANGED locals
    /\ UNCHANGED aside

\* IndexManager._load_state: None when the file does not exist
\* Mutant: the state file is not read
load_state_unread(file) == [raised |-> None, value |-> None]

load_state(file) ==
    IF file.file = "absent" THEN [raised |-> None, value |-> None]
    ELSE IF file.file = "json" THEN [raised |-> None, value |-> Some(file.doc)]
    ELSE [raised |-> Some([class |-> "JSONDecodeError", message |-> "invalid json"]),
          value |-> None]

LoadState ==
    /\ pc = "load_state"
    /\ LET loaded == load_state(store)
       IN IF loaded.raised.some
          THEN /\ Throw(loaded.raised.v)
               /\ UNCHANGED previous_state
          ELSE /\ previous_state' = loaded.value
               /\ pc' = "should_full_reindex"
               /\ UNCHANGED <<result, error>>
    /\ calls' = Append(calls, Call("load_state", <<>>))
    /\ UNCHANGED <<commits, floor, store, runs, github_sha, config, context, store0>>
    /\ UNCHANGED <<changed_files, decision, comparison, files_to_add, files_to_delete, context_state,
                   fp_attempt>>
    /\ UNCHANGED aside

Full(reason) == [should_reindex |-> TRUE, reason |-> Some(reason)]

NotFull == [should_reindex |-> FALSE, reason |-> None]

\* `value or default` on an Optional[int]
OrDefault(value, default) == IF value.some /\ value.v # 0 THEN value.v ELSE default

\* Mutant: the first-run rule is merged into the repository rule
should_full_reindex_local_merged(previous, cfg) ==
    IF NoState(previous)
    THEN [raised |-> None, value |-> Some(Full(Reason("different_repository")))]
    ELSE IF "repository" \notin DOMAIN previous.v
    THEN [raised |-> Some(KeyError("repository")), value |-> None]
    ELSE IF \/ previous.v.repository.owner # cfg.owner
            \/ previous.v.repository.name # cfg.repo
    THEN [raised |-> None, value |-> Some(Full(Reason("different_repository")))]
    ELSE IF "lastCommitSha" \notin DOMAIN previous.v
    THEN [raised |-> Some(KeyError("lastCommitSha")), value |-> None]
    ELSE IF previous.v.lastCommitSha = cfg.currentCommit
    THEN [raised |-> None, value |-> Some(NotFull)]
    ELSE [raised |-> None, value |-> None]

\* IndexManager._should_full_reindex, the rules that need no remote call:
\* the exception raised, or else Some(decision), or None when the force-push
\* check comes next
should_full_reindex_local(previous, cfg) ==
    IF NoState(previous)
    THEN [raised |-> None, value |-> Some(Full(Reason("first_run")))]
    ELSE IF "repository" \notin DOMAIN previous.v
    THEN [raised |-> Some(KeyError("repository")), value |-> None]
    ELSE IF \/ previous.v.repository.owner # cfg.owner
            \/ previous.v.repository.name # cfg.repo
    THEN [raised |-> None, value |-> Some(Full(Reason("different_repository")))]
    ELSE IF "lastCommitSha" \notin DOMAIN previous.v
    THEN [raised |-> Some(KeyError("lastCommitSha")), value |-> None]
    ELSE IF previous.v.lastCommitSha = cfg.currentCommit
    THEN [raised |-> None, value |-> Some(NotFull)]
    ELSE [raised |-> None, value |-> None]

\* Mutant: the comparison attempt is not guarded, its exception propagates
is_force_push_unguarded(outcome) ==
    IF outcome = "ok"
    THEN [raised |-> None, value |-> FALSE]
    ELSE [raised |-> Some(CauseException(outcome)), value |-> FALSE]

\* Mutant: every exception of the comparison attempt is taken for a force push
is_force_push_catch_all(outcome) ==
    [raised |-> None, value |-> outcome # "ok"]

\* GitHubClient.is_force_push on an outcome of its comparison attempt
is_force_push(outcome) ==
    IF outcome = "ok"
    THEN [raised |-> None, value |-> FALSE]
    ELSE IF CauseException(outcome).class = "GithubException"
    THEN [raised |-> None, value |-> TRUE]
    ELSE [raised |-> Some(CauseException(outcome)), value |-> FALSE]

\* IndexManager._should_full_reindex, the limits on commits and file changes
should_full_reindex_limits(cfg, cmp) ==
    LET max_commits == OrDefault(cfg.maxCommits, DEFAULT_MAX_COMMITS)
        max_files == OrDefault(cfg.maxFiles, DEFAULT_MAX_FILES)
    IN  IF cmp.commits > max_commits
        THEN Some(Full(ReasonNM("too_many_commits", cmp.commits, max_commits)))
        ELSE IF cmp.totalChanges > max_files
        THEN Some(Full(ReasonNM("too_many_files", cmp.totalChanges, max_files)))
        ELSE None

\* IndexManager.index: the branch taken on the decision (should_reindex,
\* reason): _full_reindex, or else _incremental_update
Dispatch(d) ==
    IF d.should_reindex
    THEN /\ pc' = "download_tarball"
         /\ UNCHANGED <<result, error>>
    ELSE IF NoState(previous_state)
    THEN Throw([class |-> "Exception",
                message |-> "previous_state should not be None at this point"])
    ELSE /\ pc' = "import_from_file"
         /\ UNCHANGED <<result, error>>

Base == previous_state.v.lastCommitSha

DecideLocal ==
    /\ pc = "should_full_reindex"
    /\ LET d == should_full_reindex_local(previous_state, config)
       IN IF d.raised.some
          THEN /\ Throw(d.raised.v)
               /\ UNCHANGED decision
          ELSE IF d.value.some
          THEN /\ decision' = d.value
               /\ Dispatch(d.value.v)
          ELSE /\ pc' = "is_force_push"
               /\ UNCHANGED <<decision, result, error>>
    /\ UNCHANGED <<commits, floor, store, runs, github_sha, config, context, calls, store0>>
    /\ UNCHANGED <<changed_files, previous_state, comparison, files_to_add, files_to_delete,
                   context_state, fp_attempt>>
    /\ UNCHANGED aside

DecideForcePush ==
    /\ pc = "is_force_push"
    /\ \E outcome \in CompareOutcomes(floor, Base, config.currentCommit) :
          /\ fp_attempt' = outcome
          /\ LET r == is_force_push(outcome)
             IN IF r.raised.some
                THEN /\ Throw(r.raised.v)
                     /\ UNCHANGED decision
                ELSE IF r.value
                THEN /\ decision' = Some(Full(Reason("force_push")))
                     /\ Dispatch(Full(Reason("force_push")))
                ELSE /\ pc' = "compare_commits"
                     /\ UNCHANGED <<decision, result, error>>
    /\ calls' = Append(calls, Call("is_force_push", <<>>))
    /\ UNCHANGED <<commits, floor, store, runs, github_sha, config, context, store0>>
    /\ UNCHANGED <<changed_files, previous_state, comparison, files_to_add, files_to_delete, context_state>>
    /\ UNCHANGED aside

DecideCompare ==
    /\ pc = "compare_commits"
    /\ \E outcome \in CompareOutcomes(floor, Base, config.currentCommit) :
          IF outcome = "ok"
          THEN LET cmp == compare_commits(CompareApi(commits, Base, config.currentCommit),
                                          TreeAt(commits, config.currentCommit), {})
                   d == should_full_reindex_limits(config, cmp)
               IN /\ comparison' = Some([commits |-> cmp.commits,
                                         totalChanges |-> cmp.totalChanges])
                  /\ decision' = d
                  /\ IF d.some
                     THEN Dispatch(d.v)
                     ELSE /\ pc' = "ignore_files_changed"
                          /\ UNCHANGED <<result, error>>
          ELSE /\ Throw(CauseException(outcome))
               /\ UNCHANGED <<comparison, decision>>
    /\ calls' = Append(calls, Call("compare_commits", <<>>))
    /\ UNCHANGED <<commits, floor, store, runs, github_sha, config, context, store0>>
    /\ UNCHANGED <<changed_files, previous_state, files_to_add, files_to_delete, context_state, fp_attempt>>
    /\ UNCHANGED aside

DecideIgnore ==
    /\ pc = "ignore_files_changed"
    /\ \E outcome \in CompareOutcomes(floor, Base, config.currentCommit) :
          IF outcome = "ok"
          THEN LET d == IF ignore_files_changed(CompareApi(commits, Base, config.currentCommit))
                        THEN Full(Reason("ignore_files_changed"))
                        ELSE NotFull
               IN /\ decision' = Some(d)
                  /\ Dispatch(d)
          ELSE /\ Throw(CauseException(outcome))
               /\ UNCHANGED decision
    /\ calls' = Append(calls, Call("ignore_files_changed", <<>>))
    /\ UNCHANGED <<commits, floor, store, runs, github_sha, config, context, store0>>
    /\ UNCHANGED <<changed_files, previous_state, comparison, files_to_add, files_to_delete,
                   context_state, fp_attempt>>
    /\ UNCHANGED aside

\* files.items(): the extracted files in archive order
FileList(files) ==
    LET present == SelectSeq(AllPaths, LAMBDA p : p \in DOMAIN files)
    IN [i \in 1..Len(present) |-> [path |-> present[i], contents |-> files[present[i]]]]

\* IndexManager._process_file_changes: <<files_to_add, files_to_delete>>
RECURSIVE process_file_changes(_)
process_file_changes(changes) ==
    IF Len(changes) = 0 THEN <<<<>>, <<>>>>
    ELSE LET change == Head(changes)
             rest == process_file_changes(Tail(changes))
             file == [path |-> change.path,
                      contents |-> IF change.contents.some THEN change.contents.v
                                   ELSE Str(<<>>, 0)]
             hasContents == change.contents.some /\ Truthy(change.contents.v)
         IN IF change.status \in {"added", "modified"}
            THEN IF hasContents THEN <<<<file>> \o rest[1], rest[2]>> ELSE rest
            ELSE IF change.status = "removed"
            THEN <<rest[1], <<change.path>> \o rest[2]>>
            ELSE IF change.status = "renamed"
            THEN <<IF hasContents THEN <<file>> \o rest[1] ELSE rest[1],
                   IF change.previousFilename.some /\ change.previousFilename.v # <<>>
                   THEN <<change.previousFilename.v>> \o rest[2] ELSE rest[2]>>
            ELSE rest

\* IndexManager._save_state: mkdir, open(path, "w"), json.dump.  Opening the
\* file truncates it, so a write that fails afterwards leaves it corrupt.
save_state(file, state, outcome) ==
    IF outcome = "ok"
    THEN [store |-> Doc(state), raised |-> None]
    ELSE IF outcome \in {"mkdir_fails", "open_fails"}
    THEN [store |-> file, raised |-> Some([class |-> "OSError", message |-> outcome])]
    ELSE [store |-> Corrupt, raised |-> Some([class |-> "OSError", message |-> outcome])]

SaveOutcomes == {"ok", "mkdir_fails", "open_fails", "write_fails"}

SdkFailure == [class |-> "Exception", message |-> "index_service"]

\* Whether the request for an ignore file fails: a file that is not in the
\* tree is not found in any case
FetchOutcomes(tree, name) == IF name \in DOMAIN tree THEN BOOLEAN ELSE {FALSE}

\* IndexManager._full_reindex: download_tarball
FullDownload ==
    /\ pc = "download_tarball"
    /\ \E outcome \in {"ok", "not_found", "network"},
          augFails \in FetchOutcomes(TreeAt(commits, config.currentCommit), P_AUGMENTIGNORE),
          gitFails \in FetchOutcomes(TreeAt(commits, config.currentCommit), P_GITIGNORE) :
          IF outcome = "ok"
          THEN LET tree == TreeAt(commits, config.currentCommit)
                   extracted == download_tarball(TarMembers(tree),
                                    load_ignore_patterns(tree, augFails, gitFails))
               IN /\ files_to_add' = FileList(extracted.files)
                  /\ pc' = "full_add_to_index"
                  /\ UNCHANGED <<result, error>>
          ELSE /\ Throw(CauseException(outcome))
               /\ UNCHANGED files_to_add
    /\ calls' = Append(calls, Call("download_tarball", <<>>))
    /\ UNCHANGED <<commits, floor, store, runs, github_sha, config, context, store0>>
    /\ UNCHANGED <<changed_files, previous_state, decision, comparison, files_to_delete, context_state,
                   fp_attempt>>
    /\ UNCHANGED aside

\* IndexManager._full_reindex: add_to_index
FullAdd ==
    /\ pc = "full_add_to_index"
    /\ \E ok \in BOOLEAN :
          IF ok
          THEN /\ context' = add_to_index(context, files_to_add)
               /\ pc' = "full_export"
               /\ UNCHANGED <<result, error>>
          ELSE /\ Throw(SdkFailure)
               /\ UNCHANGED context
    /\ calls' = Append(calls, Call("add_to_index", files_to_add))
    /\ UNCHANGED <<commits, floor, store, runs, github_sha, config, store0>>
    /\ UNCHANGED locals
    /\ UNCHANGED aside

\* IndexManager._full_reindex: export
FullExport ==
    /\ pc = "full_export"
    /\ \E ok \in BOOLEAN :
          IF ok
          THEN /\ context_state' = Some(export(context))
               /\ pc' = "full_save_state"
               /\ UNCHANGED <<result, error>>
          ELSE /\ Throw(SdkFailure)
               /\ UNCHANGED context_state
    /\ calls' = Append(calls, Call("export", <<>>))
    /\ UNCHANGED <<commits, floor, store, runs, github_sha, config, context, store0>>
    /\ UNCHANGED <<changed_files, previous_state, decision, comparison, files_to_add, files_to_delete,
                   fp_attempt>>
    /\ UNCHANGED aside

\* IndexManager._full_reindex: _save_state and the returned result
\* new_state of _full_reindex
full_new_state(cfg, exported) ==
    [contextState |-> exported,
     lastCommitSha |-> cfg.currentCommit,
     repository |-> [owner |-> cfg.owner, name |-> cfg.repo]]

FullSave ==
    /\ pc = "full_save_state"
    /\ \E outcome \in SaveOutcomes :
          LET new_state == full_new_state(config, context_state.v)
              saved == save_state(store, new_state, outcome)
          IN /\ store' = saved.store
             /\ IF saved.raised.some
                THEN Throw(saved.raised.v)
                ELSE /\ result' = Some(IndexResult(TRUE, "full", Len(files_to_add), 0,
                                          context_state.v.checkpoint_id,
                                          config.currentCommit, None, decision.v.reason))
                     /\ pc' = "done"
                     /\ UNCHANGED error
    /\ calls' = Append(calls, Call("save_state", <<>>))
    /\ UNCHANGED <<commits, floor, runs, github_sha, config, context, store0>>
    /\ UNCHANGED locals
    /\ UNCHANGED aside

\* Mutant: the deletions are pushed before the additions
IncrStep_DeletionsFirst(after, adds, dels) ==
    IF after = "process_file_changes"
    THEN IF dels # <<>> THEN "incr_remove_from_index"
         ELSE IF adds # <<>> THEN "incr_add_to_index"
         ELSE "incr_export"
    ELSE IF after = "remove_from_index"
    THEN IF adds # <<>> THEN "incr_add_to_index" ELSE "incr_export"
    ELSE "incr_export"

\* IndexManager._incremental_update, "Update index": the step that follows
\* `after`; each call is made only when its list is not empty
IncrStep(after, adds, dels) ==
    IF after = "process_file_changes"
    THEN IF adds # <<>> THEN "incr_add_to_index"
         ELSE IF dels # <<>> THEN "incr_remove_from_index"
         ELSE "incr_export"
    ELSE IF after = "add_to_index"
    THEN IF dels # <<>> THEN "incr_remove_from_index" ELSE "incr_export"
    ELSE "incr_export"

\* IndexManager._incremental_update: DirectContext.import_from_file
IncrImport ==
    /\ pc = "import_from_file"
    /\ \E ok \in BOOLEAN :
          IF ok
          THEN /\ context' = import_from_file(previous_state.v.contextState)
               /\ pc' = "incr_compare_commits"
               /\ UNCHANGED <<result, error>>
          ELSE /\ Throw(SdkFailure)
               /\ UNCHANGED context
    /\ calls' = Append(calls, Call("import_from_file", <<>>))
    /\ UNCHANGED <<commits, floor, store, runs, github_sha, config, store0>>
    /\ UNCHANGED locals
    /\ UNCHANGED aside

\* IndexManager._incremental_update: compare_commits, _process_file_changes
IncrCompare ==
    /\ pc = "incr_compare_commits"
    /\ \E outcome \in CompareOutcomes(floor, Base, config.currentCommit) :
          IF outcome = "ok"
          THEN LET api == CompareApi(commits, Base, config.currentCommit)
                   fetched == {api.files[i].filename :
                                  i \in {j \in 1..Len(api.files) :
                                            map_github_status(api.files[j].status)
                                                \in {"added", "modified"}}}
               IN \E failing \in {S \in SUBSET fetched : Cardinality(S) <= MaxFetchFailures} :
                     LET cmp == compare_commits(api, TreeAt(commits, config.currentCommit),
                                                failing)
                         separated == process_file_changes(cmp.files)
                     IN /\ changed_files' = cmp.files
                        /\ files_to_add' = separated[1]
                        /\ files_to_delete' = separated[2]
                        /\ pc' = IncrStep("process_file_changes", separated[1], separated[2])
                        /\ UNCHANGED <<result, error>>
                        /\ calls' = Append(calls, Call("compare_commits", failing))
          ELSE /\ Throw(CauseException(outcome))
               /\ calls' = Append(calls, Call("compare_commits", {}))
               /\ UNCHANGED <<changed_files, files_to_add, files_to_delete>>
    /\ UNCHANGED <<commits, floor, store, runs, github_sha, config, context, store0>>
    /\ UNCHANGED <<previous_state, decision, comparison, context_state, fp_attempt>>
    /\ UNCHANGED aside

\* IndexManager._incremental_update: add_to_index, when there are additions
IncrAdd ==
    /\ pc = "incr_add_to_index"
    /\ \E ok \in BOOLEAN :
          IF ok
          THEN /\ context' = add_to_index(context, files_to_add)
               /\ pc' = IncrStep("add_to_index", files_to_add, files_to_delete)
               /\ UNCHANGED <<result, error>>
          ELSE /\ Throw(SdkFailure)
               /\ UNCHANGED context
    /\ calls' = Append(calls, Call("add_to_index", files_to_add))
    /\ UNCHANGED <<commits, floor, store, runs, github_sha, config, store0>>
    /\ UNCHANGED locals
    /\ UNCHANGED aside

\* IndexManager._incremental_update: remove_from_index, when there are deletions
IncrRemove ==
    /\ pc = "incr_remove_from_index"
    /\ \E ok \in BOOLEAN :
          IF ok
          THEN /\ context' = remove_from_index(context, files_to_delete)
               /\ pc' = IncrStep("remove_from_index", files_to_add, files_to_delete)
               /\ UNCHANGED <<result, error>>
          ELSE /\ Throw(SdkFailure)
               /\ UNCHANGED context
    /\ calls' = Append(calls, Call("remove_from_index", files_to_delete))
    /\ UNCHANGED <<commits, floor, store, runs, github_sha, config, store0>>
    /\ UNCHANGED locals
    /\ UNCHANGED aside

\* IndexManager._incremental_update: export
IncrExport ==
    /\ pc = "incr_export"
    /\ \E ok \in BOOLEAN :
          IF ok
          THEN /\ context_state' = Some(export(context))
               /\ pc' = "incr_save_state"
               /\ UNCHANGED <<result, error>>
          ELSE /\ Throw(SdkFailure)
               /\ UNCHANGED context_state
    /\ calls' = Append(calls, Call("export", <<>>))
    /\ UNCHANGED <<commits, floor, store, runs, github_sha, config, context, store0>>
    /\ UNCHANGED <<changed_files, previous_state, decision, comparison, files_to_add, files_to_delete,
                   fp_attempt>>
    /\ UNCHANGED aside

\* IndexManager._incremental_update: _save_state and the returned result
\* Mutant: the incremental update keeps the commit of the previous state
incremental_new_state_stale(cfg, previous, exported) ==
    [contextState |-> exported,
     lastCommitSha |-> previous.lastCommitSha,
     repository |-> previous.repository]

\* new_state of _incremental_update
incremental_new_state(cfg, previous, exported) ==
    [contextState |-> exported,
     lastCommitSha |-> cfg.currentCommit,
     repository |-> previous.repository]

IncrSave ==
    /\ pc = "incr_save_state"
    /\ \E outcome \in SaveOutcomes :
          LET new_state == incremental_new_state(config, previous_state.v, context_state.v)
              saved == save_state(store, new_state, outcome)
          IN /\ store' = saved.store
             /\ IF saved.raised.some
                THEN Throw(saved.raised.v)
                ELSE /\ result' = Some(IndexResult(TRUE, "incremental", Len(files_to_add),
                                          Len(files_to_delete),
                                          context_state.v.checkpoint_id,
                                          config.currentCommit, None, None))
                     /\ pc' = "done"
                     /\ UNCHANGED error
    /\ calls' = Append(calls, Call("save_state", <<>>))
    /\ UNCHANGED <<commits, floor, runs, github_sha, config, context, store0>>
    /\ UNCHANGED locals
    /\ UNCHANGED aside

\* main after index() returned, or after a fatal error: the process exits and
\* nothing but the remote history and the state file survives
MainExit ==
    /\ pc \in {"done", "fatal", "uncaught"}
    /\ pc' = "idle"
    /\ github_sha' = None
    /\ config' = None
    /\ context' = <<>>
    /\ previous_state' = None
    /\ decision' = None
    /\ comparison' = None
    /\ changed_files' = <<>>
    /\ files_to_add' = <<>>
    /\ files_to_delete' = <<>>
    /\ context_state' = None
    /\ result' = None
    /\ error' = None
    /\ calls' = <<>>
    /\ store0' = store
    /\ fp_attempt' = "none"
    /\ suspended' = IF suspended.some /\ ~suspended.v.waiting THEN None ELSE suspended
    /\ UNCHANGED <<commits, floor, store, runs, invocation>>

Next ==
    \/ Push
    \/ ForcePush
    \/ DamageState
    \/ StartRun
    \/ ResolveCommitSha
    \/ LoadState
    \/ DecideLocal
    \/ DecideForcePush
    \/ DecideCompare
    \/ DecideIgnore
    \/ FullDownload
    \/ FullAdd
    \/ FullExport
    \/ FullSave
    \/ IncrImport
    \/ IncrCompare
    \/ IncrAdd
    \/ IncrRemove
    \/ IncrExport
    \/ IncrSave
    \/ MainExit

Spec == Init /\ [][Next]_vars

(***************************************************************************)
(* Properties                                                              *)
(***************************************************************************)
FullPcs == {"download_tarball", "full_add_to_index", "full_export", "full_save_state"}

IncrPcs == {"import_from_file", "incr_compare_commits", "incr_add_to_index",
            "incr_remove_from_index", "incr_export", "incr_save_state"}

DecidingPcs == {"is_force_push", "compare_commits", "ignore_files_changed"}

ForcePushDecision == Some(Full(Reason("force_push")))

\* The state file holds a document with every member of an IndexState
WellFormed(file) == file.file = "json" /\ DOMAIN file.doc = StateFields

\* The run started from a state document of the configured repository whose
\* lastCommitSha is the current commit
SameCommitRun ==
    /\ WellFormed(store0)
    /\ store0.doc.repository = [owner |-> config.owner, name |-> config.repo]
    /\ store0.doc.lastCommitSha = config.currentCommit

\* C1: when the state store holds no previous state, the decision of index()
\* is Full with reason "first_run", whatever the configuration and the
\* repository signals; the run takes the full re-index branch.
C1_FirstRunIsFull ==
    (store0 = Absent /\ pc \in FullPcs \cup IncrPcs \cup DecidingPcs \cup {"done"})
        => /\ decision = Some(Full(Reason("first_run")))
           /\ pc \in FullPcs \cup {"done"}

C1_Witness ==
    /\ store0 = Absent
    /\ pc = "done"
    /\ result.v.success
    /\ result.v.type = "full"
    /\ result.v.reindexReason = Some(Reason("first_run"))

\* C2: scenario A.  A run that starts from an empty state store and meets no
\* exception returns {success, Full, "first_run"}; a following run at the
\* commit that is already persisted, meeting no exception, returns
\* {success, NoChanges, filesIndexed 0, filesDeleted 0}.
C2_ScenarioA ==
    (pc = "done" /\ ~error.some)
        => /\ store0 = Absent =>
                 /\ result.v.success
                 /\ result.v.type = "full"
                 /\ result.v.reindexReason = Some(Reason("first_run"))
           /\ SameCommitRun =>
                 /\ result.v.success
                 /\ result.v.type = "no-changes"
                 /\ result.v.filesIndexed = 0
                 /\ result.v.filesDeleted = 0

\* C3: a run whose previous state is of the same repository and at the
\* current commit returns immediately: no comparison call, no call of the
\* external index, no write of the state store, and the state file is the
\* one the run started with.
C3_NoChangesIsNoOp ==
    (pc = "done" /\ SameCommitRun)
        => /\ \A i \in 1..Len(calls) : calls[i].op \in {"resolve_ref", "load_state"}
           /\ store = store0

\* The decision that the first matching rule of the specification gives:
\* <<kind, reason>>
C4_Expected ==
    LET maxCommits == IF config.maxCommits.some THEN config.maxCommits.v
                      ELSE DEFAULT_MAX_COMMITS
        maxFiles == IF config.maxFiles.some THEN config.maxFiles.v ELSE DEFAULT_MAX_FILES
    IN  IF store0 = Absent
        THEN <<"full", Some(Reason("first_run"))>>
        ELSE IF store0.doc.repository # [owner |-> config.owner, name |-> config.repo]
        THEN <<"full", Some(Reason("different_repository"))>>
        ELSE IF store0.doc.lastCommitSha = config.currentCommit
        THEN <<"no-changes", None>>
        ELSE IF fp_attempt # "ok"
        THEN <<"full", Some(Reason("force_push"))>>
        ELSE IF comparison.v.commits > maxCommits
        THEN <<"full", Some(ReasonNM("too_many_commits", comparison.v.commits, maxCommits))>>
        ELSE IF comparison.v.totalChanges > maxFiles
        THEN <<"full", Some(ReasonNM("too_many_files", comparison.v.totalChanges, maxFiles))>>
        ELSE IF ignore_files_changed(CompareApi(commits, store0.doc.lastCommitSha,
                                                config.currentCommit))
        THEN <<"full", Some(Reason("ignore_files_changed"))>>
        ELSE <<"incremental", None>>

\* C4: the decision and its reason are those of the first matching rule in
\* the order first_run, different_repository, NoChanges, force_push,
\* too_many_commits, too_many_files, ignore_files_changed, Incremental: every
\* successful run reports the kind and the reason of that rule.
C4_FirstMatchingRule ==
    (pc = "done" /\ result.v.success /\ (store0 = Absent \/ WellFormed(store0)))
        => <<result.v.type, result.v.reindexReason>> = C4_Expected

\* The filter pipeline rejects the file at path in the tree of the indexed
\* commit: path traversal, size, .augmentignore, keyish name, .gitignore,
\* content that is not UTF-8
PipelineRejects(tree, path) ==
    LET patterns == load_ignore_patterns(tree, FALSE, FALSE)
    IN \/ always_ignore_path(path)
       \/ ~is_valid_file_size(ByteLen(tree[path]), DEFAULT_MAX_FILE_SIZE)
       \/ patterns[1].some /\ MatchFile(patterns[1].v, path)
       \/ is_keyish_path(path)
       \/ patterns[2].some /\ MatchFile(patterns[2].v, path)
       \/ ~is_valid_utf8(tree[path])

\* C5: in every run no file that the filter pipeline rejects is passed to
\* add_to_index.
C5_NoRejectedFileIndexed ==
    \A i \in 1..Len(calls) :
        calls[i].op = "add_to_index" =>
            \A j \in 1..Len(calls[i].arg) :
                ~PipelineRejects(TreeAt(commits, config.currentCommit), calls[i].arg[j].path)

\* C6: a run that returns success = false leaves the state file exactly as
\* it was when the run started, whichever step failed.
C6_FailedRunKeepsState ==
    (pc = "done" /\ ~result.v.success) => store = store0

\* C7: index() always returns an IndexResult: an exception raised at any step
\* inside it is caught and becomes a result with success = false and error
\* set to the message of the exception; none escapes to the caller.
C7_ExceptionsBecomeResults ==
    /\ pc # "uncaught"
    /\ pc = "done" => result.some
    /\ error.some =>
          /\ pc = "done"
          /\ ~result.v.success
          /\ result.v.error = Some(error.v.message)
    /\ (pc = "done" /\ ~error.some) => (result.v.success /\ result.v.error = None)

C7_Witness ==
    /\ pc = "done"
    /\ error.some
    /\ error.v.class = "ConnectionError"
    /\ ~result.v.success
    /\ result.v.error = Some("network")

\* C8: the persisted lastCommitSha is always a resolved commit SHA, never a
\* symbolic ref: the configured ref is resolved before the state is loaded,
\* before the decision and before anything is persisted.
C8_PersistedShaIsResolved ==
    /\ (store.file = "json" /\ "lastCommitSha" \in DOMAIN store.doc)
           => IsSha(store.doc.lastCommitSha)
    /\ pc \in {"load_state", "should_full_reindex", "done"} \cup DecidingPcs
              \cup FullPcs \cup IncrPcs
          => IsSha(config.currentCommit)

C8_Witness ==
    /\ pc = "done"
    /\ github_sha = Some(Sym("HEAD"))
    /\ result.v.success
    /\ store.file = "json"
    /\ store # store0
    /\ store.doc.lastCommitSha = HeadSha

\* C9: scenario C.  When the comparison of the previous commit with the
\* current one is rejected by the platform, is_force_push returns true, the
\* decision is Full "force_push", the run takes the full re-index branch and a
\* successful result has type full and reindexReason "force_push".
C9_RejectedRangeIsForcePush ==
    fp_attempt \in {"range_rejected", "base_unreachable"}
        => /\ decision = ForcePushDecision
           /\ pc \in FullPcs \cup {"done"}
           /\ pc = "done" => result.v.type = "full"
           /\ (pc = "done" /\ result.v.success)
                 => result.v.reindexReason = Some(Reason("force_push"))

C9_Witness ==
    /\ pc = "done"
    /\ fp_attempt = "range_rejected"
    /\ store0.file = "json"
    /\ store0.doc.lastCommitSha # config.currentCommit
    /\ result.v.success
    /\ result.v.type = "full"
    /\ result.v.reindexReason = Some(Reason("force_push"))

\* C10 as stated: is_force_push returns true for every cause of failure of
\* its comparison attempt, network errors included, and false exactly when the
\* comparison succeeds; a failed attempt always gives the decision Full
\* "force_push" and never a failed run.
C10_EveryFailureIsForcePush ==
    /\ fp_attempt \in FailureCauses => decision = ForcePushDecision
    /\ fp_attempt = "ok" => decision # ForcePushDecision

\* C10 amended: is_force_push returns true when its comparison attempt raises
\* GithubException (range rejected, base unreachable, permission error) and
\* the decision is then Full "force_push"; it returns false exactly when the
\* comparison succeeds; any other exception (a network error) is not caught by
\* is_force_push, no decision is made and the run ends failed with that error.
C10_GithubFailureIsForcePush ==
    /\ (fp_attempt \in FailureCauses /\ CauseException(fp_attempt).class = "GithubException")
          => decision = ForcePushDecision
    /\ fp_attempt = "ok" => decision # ForcePushDecision
    /\ (fp_attempt \in FailureCauses /\ CauseException(fp_attempt).class # "GithubException")
          => /\ decision = None
             /\ pc = "done"
             /\ ~result.v.success
             /\ result.v.error = Some(CauseException(fp_attempt).message)

C10_Witness ==
    /\ fp_attempt = "permission"
    /\ Ancestor(floor, store0.doc.lastCommitSha, config.currentCommit)
    /\ decision = ForcePushDecision
    /\ pc = "done"
    /\ result.v.success

\* The calls of the run that diff the two commits
DiffOps == {"compare_commits", "ignore_files_changed"}

\* C11: in every run the force-push check precedes diffing: compare_commits
\* and ignore_files_changed are called only after is_force_push has returned
\* false in that run, and when is_force_push returned true no commit diff is
\* requested before the full re-index.
C11_ForcePushPrecedesDiffing ==
    /\ \A i \in 1..Len(calls) :
          calls[i].op \in DiffOps
              => /\ fp_attempt = "ok"
                 /\ \E j \in 1..(i - 1) : calls[j].op = "is_force_push"
    /\ decision = ForcePushDecision
          => \A i \in 1..Len(calls) : calls[i].op \notin DiffOps

\* The limits of the specification: the configured value, 0 included, or the
\* default when none is configured
ConfiguredMaxCommits ==
    IF config.maxCommits.some THEN config.maxCommits.v ELSE DEFAULT_MAX_COMMITS

ConfiguredMaxFiles ==
    IF config.maxFiles.some THEN config.maxFiles.v ELSE DEFAULT_MAX_FILES

\* The name of the reason of the decision, "none" without one
DecidedReason ==
    IF decision.some /\ decision.v.reason.some THEN decision.v.reason.v.name ELSE "none"

\* C12: once the comparison of the decision has been made (rules 1-4 did not
\* match), more than M commits give Full "too_many_commits (N > M)" and at
\* most M commits do not, M being the configured maxCommits, 0 included, or
\* 100; likewise more than the configured maxFiles (or 500) changed files
\* give Full "too_many_files (N > M)".
C12_ThresholdRule ==
    comparison.some
        => LET n == comparison.v.commits
               f == comparison.v.totalChanges
               tooManyCommits ==
                   Some(Full(ReasonNM("too_many_commits", n, ConfiguredMaxCommits)))
               tooManyFiles ==
                   Some(Full(ReasonNM("too_many_files", f, ConfiguredMaxFiles)))
           IN /\ n > ConfiguredMaxCommits => decision = tooManyCommits
              /\ n <= ConfiguredMaxCommits =>
                    DecidedReason # "too_many_commits"
              /\ (n <= ConfiguredMaxCommits /\ f > ConfiguredMaxFiles)
                    => decision = tooManyFiles
              /\ f <= ConfiguredMaxFiles =>
                    DecidedReason # "too_many_files"

\* A file named .gitignore or .augmentignore is among the files that the
\* comparison of the previous commit with the current one reports as changed
IgnoreFileInChangedSet ==
    LET files == CompareApi(commits, store0.doc.lastCommitSha, config.currentCommit).files
    IN \E i \in 1..Len(files) : files[i].filename \in {P_GITIGNORE, P_AUGMENTIGNORE}

\* Rules 1-5 do not match and the check of the ignore files has returned
RulesOneToFivePassed ==
    /\ fp_attempt = "ok"
    /\ comparison.some
    /\ WellFormed(store0)
    /\ store0.doc.repository = [owner |-> config.owner, name |-> config.repo]
    /\ store0.doc.lastCommitSha # config.currentCommit
    /\ comparison.v.commits <= ConfiguredMaxCommits
    /\ comparison.v.totalChanges <= ConfiguredMaxFiles
    /\ decision.some

\* C13: when rules 1-5 do not match, the decision is Full with reason
\* "ignore_files_changed" if .gitignore or .augmentignore is in the
\* changed-file set of the two commits, and Incremental otherwise; the run
\* takes the matching branch.
C13_IgnoreFilesRule ==
    RulesOneToFivePassed
        => IF IgnoreFileInChangedSet
           THEN /\ decision = Some(Full(Reason("ignore_files_changed")))
                /\ pc \in FullPcs \cup {"done"}
                /\ (pc = "done" /\ result.v.success)
                      => /\ result.v.type = "full"
                         /\ result.v.reindexReason = Some(Reason("ignore_files_changed"))
           ELSE /\ decision = Some(NotFull)
                /\ pc \in IncrPcs \cup {"done"}
                /\ (pc = "done" /\ result.v.success) => result.v.type = "incremental"

C13_Witness ==
    /\ RulesOneToFivePassed
    /\ IgnoreFileInChangedSet
    /\ pc = "done"
    /\ result.v.success
    /\ result.v.reindexReason = Some(Reason("ignore_files_changed"))

\* The comparison of the previous commit with the current one, as the
\* platform reports it, and the tree of the current commit
RunApi == CompareApi(commits, store0.doc.lastCommitSha, config.currentCommit)

HeadTree == TreeAt(commits, config.currentCommit)

\* The reported files with the given status
Reported(status) ==
    {i \in 1..Len(RunApi.files) : RunApi.files[i].status = status}

\* The call of compare_commits made by the incremental update, if any
IncrCompareCalls ==
    {j \in 1..Len(calls) :
        /\ calls[j].op = "compare_commits"
        /\ \E i \in 1..(j - 1) : calls[i].op = "import_from_file"}

\* Scenario B: a finished run without exception whose decision was
\* Incremental, from a previous state at another commit, with a comparison
\* of one added, one modified and one removed file, the two changed files
\* having contents that were fetched
ScenarioB ==
    /\ pc = "done"
    /\ ~error.some
    /\ RulesOneToFivePassed
    /\ decision = Some(NotFull)
    /\ Len(RunApi.files) = 3
    /\ Cardinality(Reported("added")) = 1
    /\ Cardinality(Reported("modified")) = 1
    /\ Cardinality(Reported("removed")) = 1
    /\ \A j \in IncrCompareCalls : calls[j].arg = {}
    /\ \A i \in Reported("added") \cup Reported("modified") :
          LET contents == get_file_contents(HeadTree, RunApi.files[i].filename, FALSE)
          IN contents.some /\ Truthy(contents.v)

MaxChanges == 2

ChangeOptions ==
    {change \in
        [path : {P_New, P_Empty},
         status : {"added", "modified", "removed", "renamed"},
         previousFilename : {None, Some(P_Old), Some(P_New)},
         contents : {None, Some(Str(<<>>, 0)), Some(Str(<<104, 105>>, 0))}] :
        change.previousFilename # Some(change.path)}

ChangeLists == UNION {[1..n -> ChangeOptions] : n \in 0..MaxChanges}

InitChanges ==
    /\ commits = <<[tree |-> 1, n |-> 1]>>
    /\ floor = 1
    /\ store = Absent
    /\ pc = "process_file_changes"
    /\ runs = 0
    /\ github_sha = None
    /\ config = None
    /\ context = <<>>
    /\ previous_state = None
    /\ decision = None
    /\ comparison = None
    /\ changed_files \in ChangeLists
    /\ files_to_add = <<>>
    /\ files_to_delete = <<>>
    /\ context_state = None
    /\ result = None
    /\ error = None
    /\ calls = <<>>
    /\ store0 = Absent
    /\ fp_attempt = "none"
    /\ invocation = None
    /\ suspended = None

\* files_to_add, files_to_delete = self._process_file_changes(comparison["files"])
ProcessFileChanges ==
    /\ pc = "process_file_changes"
    /\ files_to_add' = process_file_changes(changed_files)[1]
    /\ files_to_delete' = process_file_changes(changed_files)[2]
    /\ pc' = "processed"
    /\ UNCHANGED <<commits, floor, store, runs, github_sha, config, context, previous_state,
                   decision, comparison, changed_files, context_state, result, error, calls,
                   store0, fp_attempt>>
    /\ UNCHANGED aside

\* The index update of _incremental_update: additions, then deletions
UpdateIndex ==
    /\ pc = "processed"
    /\ LET added == IF files_to_add # <<>> THEN add_to_index(context, files_to_add)
                    ELSE context
       IN context' = IF files_to_delete # <<>> THEN remove_from_index(added, files_to_delete)
                     ELSE added
    /\ pc' = "updated"
    /\ UNCHANGED <<commits, floor, store, runs, github_sha, config, previous_state, decision,
                   comparison, changed_files, files_to_add, files_to_delete, context_state,
                   result, error, calls, store0, fp_attempt>>
    /\ UNCHANGED aside

SpecChanges == InitChanges /\ [][ProcessFileChanges \/ UpdateIndex]_vars

\* The additions and the deletions that the specification gives for a list
\* of changes: a change has contents when its contents are not None
RECURSIVE ExpectedAdditions(_)
ExpectedAdditions(list) ==
    IF Len(list) = 0 THEN <<>>
    ELSE (IF Head(list).status \in {"added", "modified", "renamed"} /\ Head(list).contents.some
          THEN <<[path |-> Head(list).path, contents |-> Head(list).contents.v]>>
          ELSE <<>>) \o ExpectedAdditions(Tail(list))

RECURSIVE ExpectedDeletions(_)
ExpectedDeletions(list) ==
    IF Len(list) = 0 THEN <<>>
    ELSE (IF Head(list).status = "removed" THEN <<Head(list).path>>
          ELSE IF Head(list).status = "renamed" /\ Head(list).previousFilename.some
          THEN <<Head(list).previousFilename.v>>
          ELSE <<>>) \o ExpectedDeletions(Tail(list))

\* C15: for every list of changes, the additions are exactly the
\* Added/Modified changes that have contents plus the new path of each
\* Renamed change that has contents, and the deletions are exactly the paths
\* of the Removed changes plus the previous path of each Renamed change.
C15_SeparatesChanges ==
    pc = "processed"
        => /\ files_to_add = ExpectedAdditions(changed_files)
           /\ files_to_delete = ExpectedDeletions(changed_files)

\* The run is an incremental update: it called import_from_file
IncrementalRun == \E i \in 1..Len(calls) : calls[i].op = "import_from_file"

\* C16: after a successful incremental run, for every file that the
\* comparison reports as renamed from old to new, the external index does not
\* hold old and holds new with its contents at the current commit.
C16_RenameMovesFile ==
    (pc = "done" /\ IncrementalRun /\ result.v.success)
        => \A i \in Reported("renamed") :
              LET new == RunApi.files[i].filename
                  old == RunApi.files[i].previous_filename.v
              IN /\ old \notin DOMAIN context
                 /\ new \in DOMAIN context
                 /\ context[new] = Decode(HeadTree[new]).v

\* The positions of the calls of an operation in the run
CallsOf(op) == {i \in 1..Len(calls) : calls[i].op = op}

\* C17: in every incremental run the external index is updated in the order
\* additions, deletions, export: add_to_index, remove_from_index and export
\* are each called at most once, add_to_index before remove_from_index and
\* both before export; add_to_index is called exactly when there are
\* additions and remove_from_index exactly when there are deletions.
C17_AddThenRemoveThenExport ==
    IncrementalRun
        => /\ Cardinality(CallsOf("add_to_index")) <= 1
           /\ Cardinality(CallsOf("remove_from_index")) <= 1
           /\ Cardinality(CallsOf("export")) <= 1
           /\ \A a \in CallsOf("add_to_index"), r \in CallsOf("remove_from_index") : a < r
           /\ \A e \in CallsOf("export") :
                 \A u \in CallsOf("add_to_index") \cup CallsOf("remove_from_index") : u < e
           /\ \A a \in CallsOf("add_to_index") :
                 calls[a].arg = files_to_add /\ files_to_add # <<>>
           /\ \A r \in CallsOf("remove_from_index") :
                 calls[r].arg = files_to_delete /\ files_to_delete # <<>>
           /\ CallsOf("export") # {}
                 => /\ files_to_add # <<>> => CallsOf("add_to_index") # {}
                    /\ files_to_delete # <<>> => CallsOf("remove_from_index") # {}

C17_Witness ==
    /\ IncrementalRun
    /\ pc = "done"
    /\ result.v.success
    /\ CallsOf("add_to_index") # {}
    /\ CallsOf("remove_from_index") # {}
    /\ CallsOf("export") # {}

\* The files whose contents could not be fetched by the comparison of the
\* incremental update
FetchFailed == UNION {calls[j].arg : j \in IncrCompareCalls}

\* C18: when the contents of an added or modified file cannot be fetched
\* during compare_commits, the comparison still returns every changed file,
\* the failing file is in the list with contents None, it is not uploaded,
\* and the run is not aborted: it goes on and, meeting no other failure, ends
\* with success.
C18_FetchFailureIsTolerated ==
    FetchFailed # {}
        => /\ ~(error.some /\ Len(calls) \in IncrCompareCalls)
           /\ Len(changed_files) = Len(RunApi.files)
           /\ \A i \in 1..Len(RunApi.files) :
                 changed_files[i].path = RunApi.files[i].filename
           /\ \A p \in FetchFailed :
                 /\ \E i \in 1..Len(changed_files) :
                       changed_files[i].path = p /\ changed_files[i].contents = None
                 /\ \A k \in 1..Len(files_to_add) : files_to_add[k].path # p
                 /\ \A a \in CallsOf("add_to_index") :
                       \A k \in 1..Len(calls[a].arg) : calls[a].arg[k].path # p
           /\ pc \in IncrPcs \cup {"done"}
           /\ (pc = "done" /\ ~error.some)
                 => result.v.success /\ result.v.type = "incremental"

C18_Witness ==
    /\ FetchFailed # {}
    /\ Len(changed_files) >= 2
    /\ pc = "done"
    /\ result.v.success
    /\ CallsOf("add_to_index") # {}

\* C19: every remote API error that occurs after the configuration has been
\* loaded, the failure to resolve the configured ref included, is returned as
\* a failed IndexResult that carries the message; the process does not exit
\* without an IndexResult.
C19_RemoteErrorsBecomeResults ==
    /\ pc \notin {"fatal", "uncaught"}
    /\ pc = "done" => result.some

\* The run started from a state document that lacks a member of IndexState
DamagedRun == store0.file = "json" /\ DOMAIN store0.doc # StateFields

\* C20: a run that starts from a state document without `repository`,
\* without `lastCommitSha` or without any member ends with a failed
\* IndexResult; it is never treated as a first run and takes neither the full
\* nor the incremental branch.
C20_DamagedStateFails ==
    (DamagedRun /\ pc \notin {"idle", "resolve_commit_sha", "load_state", "should_full_reindex",
                              "fatal"})
        => /\ decision # Some(Full(Reason("first_run")))
           /\ pc = "done"
           /\ ~result.v.success


(***************************************************************************)
(* Third specification: single calls of should_filter_file and of one      *)
(* iteration of the extraction loop of download_tarball, on paths built    *)
(* from directories, stems, extensions and trailing characters, and on     *)
(* contents around the size limits and the borders of UTF-8.               *)
(***************************************************************************)
MaxDepth == 2

N_K == <<107>>                           \* k

N_Git == <<46, 103, 105, 116>>           \* .git

\* Directory prefixes of at most MaxDepth segments: "", "k/", ".git/", "k/.git/", ...
RECURSIVE DirPrefixes(_)
DirPrefixes(depth) ==
    IF depth = 0 THEN {<<>>}
    ELSE DirPrefixes(depth - 1) \cup
         {d \o seg \o <<CH_SLASH>> :
             d \in {e \in DirPrefixes(depth - 1) : Len(SplitOn(e, CH_SLASH)) = depth},
             seg \in {N_K, N_Git}}

EXT_PY == <<46, 112, 121>>                            \* .py

\* File names: a stem ("", s, a<LF>b), an extension and a tail ("", <LF>, x);
\* the names of KEYISH_PATTERN with a tail; config, HEAD, a..b, a..b.pem, ..
BaseNames ==
    LET stems == {<<>>, <<115>>, <<97, CH_LF, 98>>}
        tails == {<<>>, <<CH_LF>>, <<120>>}
    IN  {stem \o ext \o tail :
            stem \in stems, ext \in KEYISH_EXTENSIONS \cup {EXT_PY}, tail \in tails}
        \cup {name \o tail : name \in KEYISH_NAMES, tail \in tails}
        \cup {<<99, 111, 110, 102, 105, 103>>, <<72, 69, 65, 68>>, P_DotDot,
              P_DotDot \o <<46, 112, 101, 109>>, <<CH_DOT, CH_DOT>>}

FilterPaths == {d \o b : d \in DirPrefixes(MaxDepth), b \in BaseNames}

B_Invalid == Bytes(<<128, 129, 130>>, 0)               \* 80 81 82

B_Hello == Bytes(<<104, 195, 169, 108, 108, 111>>, 0)  \* h, U+00E9, l, l, o

FilterContents ==
    { B_EmptyFile, B_Hi, B_Binary, B_Invalid, B_Hello,
      Bytes(<<240, 159, 152, 128>>, 0),                \* U+1F600
      Bytes(<<192, 128>>, 0),                          \* overlong form
      Bytes(<<237, 160, 128>>, 0),                     \* surrogate
      Bytes(<<195>>, 0),                               \* truncated sequence
      Bytes(<<>>, DEFAULT_MAX_FILE_SIZE),              \* exactly 1 MB
      Bytes(<<>>, DEFAULT_MAX_FILE_SIZE + 1),
      Bytes(<<255>>, DEFAULT_MAX_FILE_SIZE) }          \* too large and not UTF-8

MaxMembers == 3

\* Members of an archive: the root directory r, a symbolic link r/n.py,
\* the regular files r/m.py and q/m.py (the same path under two roots),
\* a regular file r at the top level, r/k/s.pem, r/b.bin (not UTF-8) and
\* r/a..b
MemberOptions ==
    LET R(path) == <<114, CH_SLASH>> \o path
    IN { [name |-> <<114>>, isfile |-> FALSE, content |-> B_EmptyFile],
         [name |-> R(P_New), isfile |-> FALSE, content |-> B_EmptyFile],
         [name |-> R(P_Main), isfile |-> TRUE, content |-> B_Hi],
         [name |-> <<113, CH_SLASH>> \o P_Main, isfile |-> TRUE, content |-> B_Ho],
         [name |-> <<114>>, isfile |-> TRUE, content |-> B_Hi],
         [name |-> R(P_Pem), isfile |-> TRUE, content |-> B_Hi],
         [name |-> R(P_Bin), isfile |-> TRUE, content |-> B_Binary],
         [name |-> R(P_DotDot), isfile |-> TRUE, content |-> B_Hi] }

\* The calls under examination, before they are made
FilterCalls ==
    [op : {"should_filter_file"}, path : FilterPaths, content : FilterContents,
     max_file_size : {None, Some(0), Some(2)}, augmentignore : {None}, gitignore : {None},
     returned : {None}]
    \cup
    [op : {"download_tarball"}, path : FilterPaths, content : FilterContents,
     max_file_size : {None}, augmentignore : {None, Some(<<N_K>>)},
     gitignore : {None, Some(<<N_K>>)},
     returned : {None}]
    \cup
    [op : {"extract_archive"},
     members : UNION {[1..n -> MemberOptions] : n \in 0..MaxMembers},
     augmentignore : {None, Some(<<N_K>>)}, gitignore : {None, Some(<<N_K>>)},
     returned : {None}]

InitFilter ==
    /\ commits = <<[tree |-> 1, n |-> 1]>>
    /\ floor = 1
    /\ store = Absent
    /\ pc = "filter"
    /\ runs = 0
    /\ github_sha = None
    /\ config = None
    /\ context = <<>>
    /\ previous_state = None
    /\ decision = None
    /\ comparison = None
    /\ changed_files = <<>>
    /\ files_to_add = <<>>
    /\ files_to_delete = <<>>
    /\ context_state = None
    /\ result = None
    /\ error = None
    /\ calls = <<>>
    /\ store0 = Absent
    /\ fp_attempt = "none"
    /\ invocation \in FilterCalls
    /\ suspended = None

\* should_filter_file(path, content, max_file_size)
ShouldFilterFile ==
    /\ pc = "filter"
    /\ invocation.op = "should_filter_file"
    /\ ~invocation.returned.some
    /\ invocation' = [invocation EXCEPT !.returned =
           Some(should_filter_file(invocation.path, invocation.content,
                                   invocation.max_file_size))]
    /\ UNCHANGED <<commits, floor, store, pc, runs, github_sha, config, context, result, error,
                   calls, store0, suspended>>
    /\ UNCHANGED locals

\* download_tarball on an archive of the root directory and one file
ExtractFile ==
    /\ pc = "filter"
    /\ invocation.op = "download_tarball"
    /\ ~invocation.returned.some
    /\ invocation' = [invocation EXCEPT !.returned =
           Some(ExtractMember([files |-> <<>>, total_files |-> 0, filtered_files |-> 0,
                               filter_reasons |-> <<>>],
                              [name |-> <<114, CH_SLASH>> \o invocation.path, isfile |-> TRUE,
                               content |-> invocation.content],
                              invocation.augmentignore, invocation.gitignore))]
    /\ UNCHANGED <<commits, floor, store, pc, runs, github_sha, config, context, result, error,
                   calls, store0, suspended>>
    /\ UNCHANGED locals

\* download_tarball on an archive of several members
ExtractArchive ==
    /\ pc = "filter"
    /\ invocation.op = "extract_archive"
    /\ ~invocation.returned.some
    /\ invocation' = [invocation EXCEPT !.returned =
           Some(download_tarball(invocation.members,
                                 <<invocation.augmentignore, invocation.gitignore>>))]
    /\ UNCHANGED <<commits, floor, store, pc, runs, github_sha, config, context, result, error,
                   calls, store0, suspended>>
    /\ UNCHANGED locals

SpecFilter == InitFilter /\ [][ShouldFilterFile \/ ExtractFile \/ ExtractArchive]_vars


\* The call of should_filter_file has returned
Classified == invocation.op = "should_filter_file" /\ invocation.returned.some

HasDotDot(path) == \E i \in 1..(Len(path) - 1) : path[i] = 46 /\ path[i + 1] = 46

\* C21: should_filter_file rejects a file with the reason path_contains_dotdot
\* exactly when its path contains "..", whatever the content and the size
\* limit are (too large, named like a key, not UTF-8).
C21_DotDotIffPathTraversal ==
    Classified =>
        LET r == invocation.returned.v
        IN /\ (r.reason = "path_contains_dotdot") <=> HasDotDot(invocation.path)
           /\ r.reason = "path_contains_dotdot" => r.filtered

\* A path with ".." inside a name that ends in .pem, with content that is
\* too large and not UTF-8, is rejected for the path
C21_Witness ==
    /\ Classified
    /\ invocation.path = P_DotDot \o <<46, 112, 101, 109>>
    /\ invocation.content = Bytes(<<255>>, DEFAULT_MAX_FILE_SIZE)
    /\ invocation.returned.v = [filtered |-> TRUE, reason |-> "path_contains_dotdot"]

\* The limit in force: the one supplied, 0 included, else 1,048,576
C22_Limit == IF invocation.max_file_size.some THEN invocation.max_file_size.v ELSE 1048576

\* C22: a file whose path passes is rejected as too large exactly when its
\* length exceeds the limit in force: a length equal to the limit passes
\* the size check, and a supplied limit of 0 is used, not the default.
C22_SizeLimitInclusive ==
    (Classified /\ ~HasDotDot(invocation.path)) =>
        LET r == invocation.returned.v
        IN /\ (r.reason = "file_too_large") <=> (ByteLen(invocation.content) > C22_Limit)
           /\ r.reason = "file_too_large" => r.filtered

\* Files of exactly the limit pass: the empty file under the limit 0
C22_Witness ==
    /\ Classified
    /\ invocation.max_file_size = Some(0)
    /\ ByteLen(invocation.content) = 0
    /\ invocation.path = <<115>> \o EXT_PY
    /\ invocation.returned.v = [filtered |-> FALSE, reason |-> "none"]

\* The contents of FilterContents that are not well-formed UTF-8
C26_Malformed ==
    { B_Binary, B_Invalid, Bytes(<<192, 128>>, 0), Bytes(<<237, 160, 128>>, 0),
      Bytes(<<195>>, 0), Bytes(<<255>>, DEFAULT_MAX_FILE_SIZE) }

\* C26: a file that passes the path, size and keyish checks is rejected as
\* binary_file exactly when its content is not valid UTF-8: FF FE and
\* 80 81 82 are rejected, valid UTF-8 with non-ASCII characters is allowed.
C26_BinaryIffNotUtf8 ==
    (Classified /\ invocation.returned.v.reason \notin
                      {"path_contains_dotdot", "file_too_large", "keyish_pattern"}) =>
        LET r == invocation.returned.v
        IN IF invocation.content \in C26_Malformed
           THEN r = [filtered |-> TRUE, reason |-> "binary_file"]
           ELSE r = [filtered |-> FALSE, reason |-> "none"]

\* The text with U+00E9 is allowed
C26_Witness ==
    /\ Classified
    /\ invocation.content = B_Hello
    /\ invocation.returned.v = [filtered |-> FALSE, reason |-> "none"]


\* The names the keyish check is said to reject: a name that ends in one of
\* the nine extensions, or one of the four key file names
C23_NamedLikeKey(name) ==
    \/ \E ext \in KEYISH_EXTENSIONS : EndsWith(name, ext)
    \/ name \in KEYISH_NAMES \ {N_Git}

\* C23: a file that passes the path and size checks is rejected as
\* keyish_pattern exactly when its basename ends in .pem, .key, .pfx, .p12,
\* .jks, .keystore, .pkcs12, .crt or .cer, or is id_rsa, id_ed25519,
\* id_ecdsa or id_dsa.
C23_KeyishIffNamedLikeKey ==
    (Classified /\ invocation.returned.v.reason \notin
                      {"path_contains_dotdot", "file_too_large"}) =>
        ((invocation.returned.v.reason = "keyish_pattern")
             <=> C23_NamedLikeKey(PathName(invocation.path)))

\* C24: a file that passes the path and size checks and whose path has .git
\* as one of its segments, at any depth, is rejected as keyish_pattern.
C24_GitSegmentIsKeyish ==
    (/\ Classified
     /\ invocation.returned.v.reason \notin {"path_contains_dotdot", "file_too_large"}
     /\ \E i \in 1..Len(SplitOn(invocation.path, CH_SLASH)) :
            SplitOn(invocation.path, CH_SLASH)[i] = N_Git) =>
        invocation.returned.v = [filtered |-> TRUE, reason |-> "keyish_pattern"]

\* One file has gone through the extraction loop of download_tarball
Extracted == invocation.op = "download_tarball" /\ invocation.returned.some

\* The reason of the earliest matching predicate in the order path traversal,
\* too large, .augmentignore, keyish, .gitignore, not UTF-8
C25_EarliestReason ==
    LET path == invocation.path
        content == invocation.content
    IN  IF HasDotDot(path) THEN "path_contains_dotdot"
        ELSE IF ByteLen(content) > 1048576 THEN "file_too_large"
        ELSE IF invocation.augmentignore.some /\ MatchFile(invocation.augmentignore.v, path)
        THEN "augmentignore"
        ELSE IF is_keyish_path(path) THEN "keyish_pattern"
        ELSE IF invocation.gitignore.some /\ MatchFile(invocation.gitignore.v, path)
        THEN "gitignore"
        ELSE IF ~is_valid_utf8(content) THEN "binary_file"
        ELSE "none"

\* C25: the reason counted for a rejected file is that of the earliest
\* matching predicate in the order path traversal, too large,
\* .augmentignore, keyish, .gitignore, not UTF-8; a file is rejected exactly
\* when some predicate matches.
C25_EarliestReasonIsCounted ==
    Extracted =>
        LET tally == invocation.returned.v
        IN IF C25_EarliestReason = "none"
           THEN tally.filtered_files = 0 /\ DOMAIN tally.files = {invocation.path}
           ELSE /\ tally.filtered_files = 1
                /\ tally.files = <<>>
                /\ tally.filter_reasons = (C25_EarliestReason :> 1)

\* The part of C25 about the outcome: a file is kept exactly when no
\* predicate matches, in whatever order they are tested
C25_OutcomeIsOrderFree ==
    Extracted =>
        LET tally == invocation.returned.v
        IN IF C25_EarliestReason = "none"
           THEN tally.filtered_files = 0 /\ DOMAIN tally.files = {invocation.path}
           ELSE tally.filtered_files = 1 /\ tally.files = <<>>


\* C28: after a successful run, full or incremental, the state file holds
\* lastCommitSha = currentCommit, repository = (config.owner, config.repo),
\* which an incremental run takes over unchanged from the previous state,
\* and the context state exported after the run's updates of the index;
\* the commitSha of the result is the persisted lastCommitSha.
C28_PersistedStateOfRun ==
    (pc = "done" /\ result.v.success) =>
        /\ store.file = "json"
        /\ DOMAIN store.doc = StateFields
        /\ store.doc.lastCommitSha = config.currentCommit
        /\ store.doc.repository = [owner |-> config.owner, name |-> config.repo]
        /\ result.v.type = "incremental" => store.doc.repository = store0.doc.repository
        /\ store.doc.contextState = export(context)
        /\ result.v.commitSha = store.doc.lastCommitSha

\* An incremental run that changed the index has persisted its state
C28_Witness ==
    /\ pc = "done"
    /\ result.v.success
    /\ result.v.type = "incremental"
    /\ store.doc.lastCommitSha # store0.doc.lastCommitSha
    /\ store.doc.contextState # store0.doc.contextState
    /\ store.doc.contextState = export(context)


\* The index a full re-index of a tree produces when every request succeeds
C29_FullIndex(tree) ==
    download_tarball(TarMembers(tree), load_ignore_patterns(tree, FALSE, FALSE)).files

\* C29: when the index of the previous state is the one a full re-index at
\* its commit produces, the index after a successful incremental run, with
\* every content request answered, is the one a full re-index at the
\* current commit would produce.
C29_IncrementalRefinesFull ==
    (/\ pc = "done"
     /\ result.v.success
     /\ result.v.type = "incremental"
     /\ FetchFailed = {}
     /\ store0.doc.contextState.blobs
            = C29_FullIndex(TreeAt(commits, store0.doc.lastCommitSha))) =>
        context = C29_FullIndex(HeadTree)

\* The runs of C29 on which the incremental update does agree with a full
\* re-index
C29_Agreeing ==
    /\ pc = "done"
    /\ result.v.success
    /\ result.v.type = "incremental"
    /\ store0.doc.lastCommitSha # config.currentCommit
    /\ context = C29_FullIndex(HeadTree)
    /\ context # store0.doc.contextState.blobs


(***************************************************************************)
(* Fourth specification: single calls of compare_commits on the answers    *)
(* the comparison API can give, with every file status of the API.  The    *)
(* head tree is Tree1 (m.py, n.py); o.py is a file of the base only.       *)
(***************************************************************************)
MaxApiFiles == 2

ApiStatuses == {"added", "removed", "modified", "renamed", "copied", "changed", "unchanged"}

\* The file entries of an answer: the API gives previous_filename for
\* renamed and copied files only
ApiFileOptions ==
    {[filename |-> P_Old, status |-> "removed", previous_filename |-> None],
     [filename |-> P_New, status |-> "copied", previous_filename |-> Some(P_Main)]}
    \cup [filename : {P_Main, P_New}, status : {"renamed"}, previous_filename : {Some(P_Old)}]
    \cup [filename : {P_Main, P_New}, status : ApiStatuses \ {"removed", "renamed", "copied"},
          previous_filename : {None}]

\* The entries of an answer for a change of an ignore file of the root:
\* added, modified, removed, renamed to another path, renamed from another
\* path
ApiIgnoreFileOptions ==
    [filename : {P_GITIGNORE, P_AUGMENTIGNORE}, status : {"added", "modified", "removed"},
     previous_filename : {None}]
    \cup [filename : {P_New}, status : {"renamed"},
          previous_filename : {Some(P_GITIGNORE), Some(P_AUGMENTIGNORE)}]
    \cup [filename : {P_GITIGNORE, P_AUGMENTIGNORE}, status : {"renamed"},
          previous_filename : {Some(P_Old)}]

InitCompare ==
    /\ commits = <<[tree |-> 1, n |-> 1]>>
    /\ floor = 1
    /\ store = Absent
    /\ pc = "compare"
    /\ runs = 0
    /\ github_sha = None
    /\ config = None
    /\ context = <<>>
    /\ previous_state = None
    /\ decision = None
    /\ comparison = None
    /\ changed_files = <<>>
    /\ files_to_add = <<>>
    /\ files_to_delete = <<>>
    /\ context_state = None
    /\ result = None
    /\ error = None
    /\ calls = <<>>
    /\ store0 = Absent
    /\ fp_attempt = "none"
    /\ invocation \in
           [op : {"compare_commits"},
            api : [files : UNION {[1..n -> ApiFileOptions] : n \in 0..MaxApiFiles},
                   total_commits : {1}],
            failing : {{}, {P_Main}, {P_New}},
            returned : {None}]
           \cup
           [op : {"ignore_files_changed"},
            api : [files : UNION {[1..n -> ApiFileOptions \cup ApiIgnoreFileOptions] :
                                     n \in 0..MaxApiFiles},
                   total_commits : {1}],
            failing : {{}},
            returned : {None}]
    /\ suspended = None

\* compare_commits(owner, repo, base, head) once the API has answered
CompareCommits ==
    /\ pc = "compare"
    /\ invocation.op = "compare_commits"
    /\ ~invocation.returned.some
    /\ invocation' = [invocation EXCEPT !.returned =
           Some(compare_commits(invocation.api, Tree1, invocation.failing))]
    /\ UNCHANGED <<commits, floor, store, pc, runs, github_sha, config, context, result, error,
                   calls, store0, suspended>>
    /\ UNCHANGED locals

\* ignore_files_changed(owner, repo, base, head) once the API has answered
IgnoreFilesChanged ==
    /\ pc = "compare"
    /\ invocation.op = "ignore_files_changed"
    /\ ~invocation.returned.some
    /\ invocation' = [invocation EXCEPT !.returned = Some(ignore_files_changed(invocation.api))]
    /\ UNCHANGED <<commits, floor, store, pc, runs, github_sha, config, context, result, error,
                   calls, store0, suspended>>
    /\ UNCHANGED locals

SpecCompare == InitCompare /\ [][CompareCommits \/ IgnoreFilesChanged]_vars

\* C30: every FileChange that compare_commits returns has a status among
\* added, modified, removed, renamed, has contents only when added or
\* modified, and has a previous path only when renamed, whatever status the
\* API reports.
C30_FileChangeInvariant ==
    (invocation.op = "compare_commits" /\ invocation.returned.some) =>
        \A i \in 1..Len(invocation.returned.v.files) :
            LET change == invocation.returned.v.files[i]
            IN /\ change.status \in {"added", "modified", "removed", "renamed"}
               /\ change.contents.some => change.status \in {"added", "modified"}
               /\ change.previousFilename.some => change.status = "renamed"

\* The part of C30 about status and contents
C30_StatusAndContents ==
    (invocation.op = "compare_commits" /\ invocation.returned.some) =>
        \A i \in 1..Len(invocation.returned.v.files) :
            LET change == invocation.returned.v.files[i]
            IN /\ change.status \in {"added", "modified", "removed", "renamed"}
               /\ change.contents.some => change.status \in {"added", "modified"}


(***************************************************************************)
(* Fifth specification: two processes of main() on the same branch key.    *)
(* Nothing locks the state file: a process that has loaded the state may   *)
(* wait (Preempt) while a second process starts and runs to its end, and   *)
(* go on afterwards (Resume) with the state it loaded.  suspended holds    *)
(* the variables of the waiting process, and after Resume the state file   *)
(* that the process finds when it goes on.                                 *)
(***************************************************************************)
Frame ==
    [pc |-> pc, github_sha |-> github_sha, config |-> config, context |-> context,
     previous_state |-> previous_state, decision |-> decision, comparison |-> comparison,
     changed_files |-> changed_files, files_to_add |-> files_to_add,
     files_to_delete |-> files_to_delete, context_state |-> context_state,
     result |-> result, error |-> error, calls |-> calls, store0 |-> store0,
     fp_attempt |-> fp_attempt]

\* The process has loaded the state and waits; the processor is free for a
\* second process
Preempt ==
    /\ pc = "should_full_reindex"
    /\ suspended = None
    /\ runs < MaxRuns
    /\ suspended' = Some([waiting |-> TRUE, frame |-> Frame, found |-> store])
    /\ pc' = "idle"
    /\ github_sha' = None
    /\ config' = None
    /\ context' = <<>>
    /\ previous_state' = None
    /\ decision' = None
    /\ comparison' = None
    /\ changed_files' = <<>>
    /\ files_to_add' = <<>>
    /\ files_to_delete' = <<>>
    /\ context_state' = None
    /\ result' = None
    /\ error' = None
    /\ calls' = <<>>
    /\ store0' = store
    /\ fp_attempt' = "none"
    /\ UNCHANGED <<commits, floor, store, runs, invocation>>

\* The waiting process goes on after the second process has ended
Resume ==
    /\ pc = "idle"
    /\ suspended.some
    /\ suspended.v.waiting
    /\ LET frame == suspended.v.frame
       IN /\ pc' = frame.pc
          /\ github_sha' = frame.github_sha
          /\ config' = frame.config
          /\ context' = frame.context
          /\ previous_state' = frame.previous_state
          /\ decision' = frame.decision
          /\ comparison' = frame.comparison
          /\ changed_files' = frame.changed_files
          /\ files_to_add' = frame.files_to_add
          /\ files_to_delete' = frame.files_to_delete
          /\ context_state' = frame.context_state
          /\ result' = frame.result
          /\ error' = frame.error
          /\ calls' = frame.calls
          /\ store0' = frame.store0
          /\ fp_attempt' = frame.fp_attempt
          /\ suspended' = Some([waiting |-> FALSE, frame |-> frame, found |-> store])
    /\ UNCHANGED <<commits, floor, store, runs, invocation>>

NextRace ==
    \/ Next
    \/ Preempt
    \/ Resume

SpecRace == Init /\ [][NextRace]_vars

\* The step of _save_state that replaces the state file and ends the run
\* with success
C27_Persists == pc \in {"full_save_state", "incr_save_state"} /\ pc' = "done"

\* C27: with runs one after the other, the state a successful run persists
\* is derived from the state persisted immediately before: the state the
\* run loaded is the one the state file holds when the run replaces it.
C27_SerializedRunsDerive ==
    [][(C27_Persists /\ ~suspended.some) =>
           /\ store = store0
           /\ previous_state = IF store.file = "json" THEN Some(store.doc) ELSE None]_vars

\* C27, overlapping runs: both processes have loaded the state before either
\* persists; the second process has persisted a newer commit, and the first
\* one has then replaced the state file by a state with an older
\* lastCommitSha and without the other run's changes of the index.
C27_Witness ==
    /\ pc = "done"
    /\ result.v.success
    /\ suspended.some
    /\ ~suspended.v.waiting
    /\ suspended.v.found.file = "json"
    /\ suspended.v.found # store0
    /\ suspended.v.found.doc.lastCommitSha.sha > store.doc.lastCommitSha.sha
    /\ store.doc.contextState # suspended.v.found.doc.contextState


\* The comparison reports a change of .gitignore or .augmentignore of the
\* root: as the path of an entry, or as the previous path of a rename
C31_IgnoreFileDiffers ==
    \E i \in 1..Len(invocation.api.files) :
        LET file == invocation.api.files[i]
        IN \/ file.filename \in {P_GITIGNORE, P_AUGMENTIGNORE}
           \/ /\ file.previous_filename.some
              /\ file.status = "renamed"
              /\ file.previous_filename.v \in {P_GITIGNORE, P_AUGMENTIGNORE}

\* C31: whenever .gitignore or .augmentignore of the root differs between
\* the two commits in any way (added, modified, removed, renamed from or to
\* the ignore file), ignore_files_changed answers true, which is what makes
\* rule 6 of the decision return Full "ignore_files_changed".
C31_EveryIgnoreChangeIsSeen ==
    (invocation.op = "ignore_files_changed" /\ invocation.returned.some) =>
        (invocation.returned.v <=> C31_IgnoreFileDiffers)

\* The part of C31 that holds: a change reported under the path of the
\* ignore file is seen
C31_ChangeAtPathIsSeen ==
    (invocation.op = "ignore_files_changed" /\ invocation.returned.some) =>
        (invocation.returned.v <=>
            \E i \in 1..Len(invocation.api.files) :
                invocation.api.files[i].filename \in {P_GITIGNORE, P_AUGMENTIGNORE})


\* C32: in a successful incremental run every added or modified file whose
\* contents at the head were fetched, the empty string included, is passed
\* to add_to_index and is in the index afterwards.
C32_FetchedFileIsAdded ==
    (pc = "done" /\ IncrementalRun /\ result.v.success) =>
        \A i \in 1..Len(changed_files) :
            (changed_files[i].status \in {"added", "modified"} /\ changed_files[i].contents.some)
                => /\ \E a \in CallsOf("add_to_index") :
                         \E k \in 1..Len(calls[a].arg) :
                             calls[a].arg[k].path = changed_files[i].path
                   /\ changed_files[i].path \in DOMAIN context

\* The part of C32 that holds: the fetched files with non-empty contents
C32_NonEmptyFileIsAdded ==
    (pc = "done" /\ IncrementalRun /\ result.v.success) =>
        \A i \in 1..Len(changed_files) :
            (/\ changed_files[i].status \in {"added", "modified"}
             /\ changed_files[i].contents.some
             /\ Truthy(changed_files[i].contents.v))
                => /\ \E a \in CallsOf("add_to_index") :
                         \E k \in 1..Len(calls[a].arg) :
                             calls[a].arg[k].path = changed_files[i].path
                   /\ changed_files[i].path \in DOMAIN context


\* C33: a path that one incremental update has both among its additions and
\* among its deletions (a file renamed away from the path while another
\* change puts a file at the path) is in the index after the update.
C33_AddedAndDeletedPathStays ==
    pc = "updated" =>
        \A k \in 1..Len(files_to_add) :
            (\E d \in 1..Len(files_to_delete) : files_to_delete[d] = files_to_add[k].path)
                => files_to_add[k].path \in DOMAIN context

\* The additions that are not among the deletions are in the index
C33_AddedPathStays ==
    pc = "updated" =>
        \A k \in 1..Len(files_to_add) :
            (\A d \in 1..Len(files_to_delete) : files_to_delete[d] # files_to_add[k].path)
                => files_to_add[k].path \in DOMAIN context


(***************************************************************************)
(* Sixth specification: index() is called a second time on the same        *)
(* IndexManager, which keeps _context and _config from the first call.     *)
(***************************************************************************)
IndexAgain ==
    /\ pc = "done"
    /\ \A i \in 1..Len(calls) : calls[i].op # "index"
    /\ previous_state' = None
    /\ decision' = None
    /\ comparison' = None
    /\ changed_files' = <<>>
    /\ files_to_add' = <<>>
    /\ files_to_delete' = <<>>
    /\ context_state' = None
    /\ result' = None
    /\ error' = None
    /\ calls' = <<Call("index", calls)>>
    /\ store0' = store
    /\ fp_attempt' = "none"
    /\ pc' = "load_state"
    /\ UNCHANGED <<commits, floor, store, runs, github_sha, config, context>>
    /\ UNCHANGED aside

NextAgain ==
    \/ Next
    \/ IndexAgain

SpecAgain == Init /\ [][NextAgain]_vars

\* The files the full re-index of this call has extracted
C34_Extracted == {files_to_add[i].path : i \in 1..Len(files_to_add)}

\* This is the second call of index() on the manager, and the first call has
\* made an incremental update: import, index updates, export
C34_AfterIncrementalUpdate ==
    /\ Len(calls) > 0
    /\ calls[1].op = "index"
    /\ \E i \in 1..Len(calls[1].arg) : calls[1].arg[i].op = "import_from_file"
    /\ \E i \in 1..Len(calls[1].arg) : calls[1].arg[i].op = "export"

\* C34: after a successful full re-index the index whose state is persisted
\* holds exactly the files extracted from the current commit and no path of
\* the previously persisted context state besides, in the first call of
\* index() on a manager and in a second call that follows an incremental
\* update.
C34_FullReindexReplacesIndex ==
    (/\ pc = "done"
     /\ result.v.success
     /\ result.v.type = "full"
     /\ C34_AfterIncrementalUpdate \/ \A i \in 1..Len(calls) : calls[i].op # "index") =>
        /\ DOMAIN context = C34_Extracted
        /\ store.doc.contextState.blobs = context

\* The part of C34 that holds: the single call of index() that main makes
C34_FirstCallReplacesIndex ==
    (/\ pc = "done"
     /\ result.v.success
     /\ result.v.type = "full"
     /\ \A i \in 1..Len(calls) : calls[i].op # "index") =>
        /\ DOMAIN context = C34_Extracted
        /\ store.doc.contextState.blobs = context


\* The archive has gone through download_tarball
Unpacked == invocation.op = "extract_archive" /\ invocation.returned.some

\* The path of member i without its first segment
C35_Stripped(i) == JoinSlash(Tail(SplitOn(invocation.members[i].name, CH_SLASH)))

\* Member i matches one of the six rejection predicates
C35_Rejected(i) ==
    LET path == C35_Stripped(i)
        content == invocation.members[i].content
    IN \/ HasDotDot(path)
       \/ ByteLen(content) > 1048576
       \/ invocation.augmentignore.some /\ MatchFile(invocation.augmentignore.v, path)
       \/ is_keyish_path(path)
       \/ invocation.gitignore.some /\ MatchFile(invocation.gitignore.v, path)
       \/ ~is_valid_utf8(content)

C35_Regular == {i \in 1..Len(invocation.members) : invocation.members[i].isfile}

RECURSIVE C35_Sum(_)
C35_Sum(counters) ==
    IF DOMAIN counters = {} THEN 0
    ELSE LET r == CHOOSE x \in DOMAIN counters : TRUE
         IN counters[r] + C35_Sum([x \in DOMAIN counters \ {r} |-> counters[x]])

\* The returned paths are those of the regular members with a non-empty
\* path below the root that match no rejection predicate
C35_ExactFileSet ==
    Unpacked =>
        DOMAIN invocation.returned.v.files =
            {C35_Stripped(i) : i \in {j \in C35_Regular :
                                        C35_Stripped(j) # <<>> /\ ~C35_Rejected(j)}}

\* C35: the file set of a full extraction is exactly the regular members
\* with a non-empty path below the root that match none of the six
\* rejection predicates, and the number of regular members is the number of
\* returned files plus the sum of the rejection counters.
C35_ExtractionAccounts ==
    Unpacked =>
        /\ DOMAIN invocation.returned.v.files =
               {C35_Stripped(i) : i \in {j \in C35_Regular :
                                           C35_Stripped(j) # <<>> /\ ~C35_Rejected(j)}}
        /\ Cardinality(C35_Regular) =
               Cardinality(DOMAIN invocation.returned.v.files)
                   + C35_Sum(invocation.returned.v.filter_reasons)

\* The members of the archive in the order given by the permutation f
C36_Permuted(f) == [i \in 1..Len(invocation.members) |-> invocation.members[f[i]]]

\* C36: for every permutation of the members, the path-to-contents map and
\* the rejection counters of the extraction are the same.
C36_OrderIndependent ==
    Unpacked =>
        \A f \in {g \in [1..Len(invocation.members) -> 1..Len(invocation.members)] :
                     \A a, b \in 1..Len(invocation.members) : g[a] = g[b] => a = b} :
            LET other == download_tarball(C36_Permuted(f),
                                          <<invocation.augmentignore, invocation.gitignore>>)
            IN /\ other.files = invocation.returned.v.files
               /\ other.filter_reasons = invocation.returned.v.filter_reasons

\* The part of C36 that holds: archives in which no two regular members
\* have the same path below the root
C36_OrderIndependentOnDistinctPaths ==
    (Unpacked /\ \A a, b \in C35_Regular : C35_Stripped(a) = C35_Stripped(b) => a = b) =>
        \A f \in {g \in [1..Len(invocation.members) -> 1..Len(invocation.members)] :
                     \A a, b \in 1..Len(invocation.members) : g[a] = g[b] => a = b} :
            LET other == download_tarball(C36_Permuted(f),
                                          <<invocation.augmentignore, invocation.gitignore>>)
            IN /\ other.files = invocation.returned.v.files
               /\ other.filter_reasons = invocation.returned.v.filter_reasons


\* The patterns of the ignore files that exist at the current commit
C37_PatternsAtHead == load_ignore_patterns(HeadTree, FALSE, FALSE)

\* Some ignore file of the current commit matches the path
C37_Ignored(path) ==
    \/ C37_PatternsAtHead[1].some /\ MatchFile(C37_PatternsAtHead[1].v, path)
    \/ C37_PatternsAtHead[2].some /\ MatchFile(C37_PatternsAtHead[2].v, path)

\* C37: in a full re-index no file that matches the patterns of an ignore
\* file existing at the ref is in the extracted file set, whatever the
\* outcome of the request for the ignore file.
C37_IgnoredFileIsNeverExtracted ==
    (pc \in {"full_add_to_index", "full_export", "full_save_state"}
        \/ (pc = "done" /\ result.v.success /\ result.v.type = "full")) =>
        \A i \in 1..Len(files_to_add) : ~C37_Ignored(files_to_add[i].path)

\* The part of C37 that holds: at a commit without ignore files the
\* extraction goes through with empty rule sets and returns every file that
\* passes should_filter_file
C37_AbsenceIsNoError ==
    (/\ pc = "full_add_to_index"
     /\ P_GITIGNORE \notin DOMAIN HeadTree
     /\ P_AUGMENTIGNORE \notin DOMAIN HeadTree) =>
        {files_to_add[i].path : i \in 1..Len(files_to_add)} =
            {p \in DOMAIN HeadTree : ~should_filter_file(p, HeadTree[p], None).filtered}


(***************************************************************************)
(* Seventh specification: the state file path of two runs, from the ref    *)
(* each run is configured with (main.py).                                  *)
(***************************************************************************)
MaxBranchLen == 3

\* Names of refs: a, -, / and . between a first and a last a
RefNames ==
    {name \in UNION {[1..n -> {97, 45, 47, 46}] : n \in 1..MaxBranchLen} :
        name[1] = 97 /\ name[Len(name)] = 97}

\* parse_repository_info: the branch of a run whose GITHUB_REF is
\* refs/heads/<name> or refs/tags/<name> and whose GITHUB_REF_NAME is <name>
parse_repository_info(kind, name) ==
    IF kind = "heads" THEN name ELSE <<116, 97, 103, 47>> \o name   \* "tag/" + name

\* get_state_path(branch); STATE_PATH is the environment variable, if set
get_state_path(branch, STATE_PATH) ==
    LET Keep(c) == \/ c >= 97 /\ c <= 122
                   \/ c >= 65 /\ c <= 90
                   \/ c >= 48 /\ c <= 57
                   \/ c = 45
                   \/ c = 95
        sanitized_branch == [i \in 1..Len(branch) |-> IF Keep(branch[i]) THEN branch[i] ELSE 45]
        \* ".augment-index-state/" and "/state.json"
        dir == <<46, 97, 117, 103, 109, 101, 110, 116, 45, 105, 110, 100, 101, 120, 45,
                 115, 116, 97, 116, 101, 47>>
        file == <<47, 115, 116, 97, 116, 101, 46, 106, 115, 111, 110>>
    IN IF STATE_PATH.some THEN STATE_PATH.v
       ELSE dir \o sanitized_branch \o file

InitStatePath ==
    /\ commits = <<[tree |-> 1, n |-> 1]>>
    /\ floor = 1
    /\ store = Absent
    /\ pc = "state_path"
    /\ runs = 0
    /\ github_sha = None
    /\ config = None
    /\ context = <<>>
    /\ previous_state = None
    /\ decision = None
    /\ comparison = None
    /\ changed_files = <<>>
    /\ files_to_add = <<>>
    /\ files_to_delete = <<>>
    /\ context_state = None
    /\ result = None
    /\ error = None
    /\ calls = <<>>
    /\ store0 = Absent
    /\ fp_attempt = "none"
    /\ invocation \in
           [op : {"get_state_path"},
            refs : [1..2 -> [kind : {"heads", "tags"}, name : RefNames]],
            STATE_PATH : {None, Some(<<115>>)},
            branches : {<<>>},
            returned : {None}]
    /\ suspended = None

\* main of two runs: load_config, get_state_path(config.branch)
GetStatePath ==
    /\ pc = "state_path"
    /\ ~invocation.returned.some
    /\ LET branch == [i \in 1..2 |-> parse_repository_info(invocation.refs[i].kind,
                                                           invocation.refs[i].name)]
       IN invocation' = [invocation EXCEPT
              !.branches = branch,
              !.returned = Some([i \in 1..2 |->
                                    get_state_path(branch[i], invocation.STATE_PATH)])]
    /\ UNCHANGED <<commits, floor, store, pc, runs, github_sha, config, context, result, error,
                   calls, store0, suspended>>
    /\ UNCHANGED locals

SpecStatePath == InitStatePath /\ [][GetStatePath]_vars

\* C38: without STATE_PATH, two runs configured with different branch names
\* use different state file paths.
C38_BranchesHaveOwnState ==
    (/\ invocation.op = "get_state_path"
     /\ invocation.returned.some
     /\ ~invocation.STATE_PATH.some
     /\ invocation.branches[1] # invocation.branches[2]) =>
        invocation.returned.v[1] # invocation.returned.v[2]

\* The part of C38 that holds: branch names made of letters, digits, - and _
C38_PlainBranchesHaveOwnState ==
    (/\ invocation.op = "get_state_path"
     /\ invocation.returned.some
     /\ ~invocation.STATE_PATH.some
     /\ invocation.branches[1] # invocation.branches[2]
     /\ \A i \in 1..2 : \A k \in 1..Len(invocation.branches[i]) :
            invocation.branches[i][k] \in {97, 45, 95}) =>
        invocation.returned.v[1] # invocation.returned.v[2]


(***************************************************************************)
(* Eighth specification: the runs of Spec under the assumption that every  *)
(* call of a run returns or raises, so that a run that can take a step     *)
(* takes one.                                                              *)
(***************************************************************************)
\* A step of index() other than the download of the archive and the
\* comparison of two commits: the code at the current position runs to the
\* next one
RunStep ==
    \/ LoadState
    \/ DecideLocal
    \/ DecideForcePush
    \/ DecideIgnore
    \/ FullAdd
    \/ FullExport
    \/ FullSave
    \/ IncrImport
    \/ IncrAdd
    \/ IncrRemove
    \/ IncrExport
    \/ IncrSave

FetchPcs == {"compare_commits", "download_tarball", "incr_compare_commits"}

\* The download of the archive, or the comparison of two commits, returns or
\* raises: index() leaves the position of the call
FetchReturns ==
    /\ pc \in FetchPcs
    /\ pc' \in (DecidingPcs \cup FullPcs \cup IncrPcs \cup {"done", "uncaught"}) \ {pc}

SpecLive == Init /\ [][Next]_vars /\ WF_vars(RunStep) /\ WF_pc(FetchReturns)

\* The download and the comparisons have an outcome in every state they are
\* called in
C39_FetchCanReturn ==
    /\ pc \in {"compare_commits", "incr_compare_commits"} =>
           CompareOutcomes(floor, Base, config.currentCommit) # {}
    /\ pc = "download_tarball" =>
           /\ FetchOutcomes(TreeAt(commits, config.currentCommit), P_AUGMENTIGNORE) # {}
           /\ FetchOutcomes(TreeAt(commits, config.currentCommit), P_GITIGNORE) # {}

\* The order of a call of index(): the strategy is decided before a branch
\* is entered, at most one branch is entered, the state is written only
\* after the index updates and the export of the branch, nothing follows a
\* failure, and no step is made twice
C39_InOrder ==
    /\ pc \in FullPcs \cup IncrPcs => decision.some /\ ~error.some
    /\ ~(CallsOf("download_tarball") # {} /\ CallsOf("import_from_file") # {})
    /\ \A op \in {"load_state", "is_force_push", "ignore_files_changed", "download_tarball",
                  "import_from_file", "add_to_index", "remove_from_index", "export",
                  "save_state"} :
           Cardinality(CallsOf(op)) <= 1
    /\ Cardinality({c \in CallsOf("compare_commits") :
                       \A i \in CallsOf("import_from_file") : c < i}) <= 1
    /\ Cardinality({c \in CallsOf("compare_commits") :
                       \E i \in CallsOf("import_from_file") : c > i}) <= 1
    /\ \A w \in CallsOf("save_state") :
           /\ context_state.some
           /\ \E e \in CallsOf("export") : e = w - 1
           /\ \A u \in CallsOf("add_to_index") \cup CallsOf("remove_from_index") : u < w - 1
    /\ error.some => pc \in {"done", "uncaught"}
    /\ (error.some /\ Len(calls) > 0) => calls[Len(calls)].op \notin {"index"}

\* C39: every call of index() reaches its end, with a result, when each
\* call it makes returns or raises; on the way the strategy is decided, at
\* most one branch is taken, the state is written only after the updates
\* and the export of that branch, and no step is retried or repeated.
C39_IndexTerminatesInOrder ==
    /\ (pc = "load_state") ~> (pc = "done" /\ result.some)
    /\ []C39_FetchCanReturn
    /\ []C39_InOrder

\* A run has gone through decision, incremental update, export and write
C39_Witness ==
    /\ pc = "done"
    /\ result.v.success
    /\ result.v.type = "incremental"
    /\ CallsOf("is_force_push") # {}
    /\ CallsOf("add_to_index") # {}
    /\ CallsOf("remove_from_index") # {}
    /\ CallsOf("save_state") # {}

====
